---------------------------- MODULE Spec2Model ----------------------------
(***************************************************************************)
(* A state-machine model of the simulation core of the three entry         *)
(* scripts of the repository:                                              *)
(*   - src/fps.js             the FPS shooter (threats, hitscan, death)    *)
(*   - src/unnamed/part_000   the playground (gravity, projectiles, WASD)  *)
(*   - src/waves.js           the wave lab (impulse field, pause / step)   *)
(*                                                                         *)
(* Each script is a separate page (boot.js loads exactly one of them), so  *)
(* each gets its own specification over its own variables; the variables   *)
(* of the other scripts stay at their initial values.                      *)
(*                                                                         *)
(* Numbers.  JavaScript numbers are doubles; the model uses fixed point    *)
(* integers.  FPS mode: lengths in cm, times in ms, velocities in cm/s.    *)
(* Products with dt are rounded down (Scale).  Wave lab: displacements,    *)
(* settings and falloff factors in 1/1000.  Rendering, audio, DOM styling  *)
(* and colours are not part of the state.                                  *)
(***************************************************************************)
EXTENDS Integers, Sequences, FiniteSets, TLC

VARIABLES
    \* ---- src/fps.js ----
    hp, score, kills, isDead, ammo,
    isPointerLocked,     \* the script's flag
    lockEl,              \* document.pointerLockElement === renderer.domElement
    yaw,                 \* look input: 0 faces -Z, 1 faces +Z
    camera,              \* [y, z, yaw]: camera.position and applied rotation
    keys, playerVelY, onGround,
    threats, debris, bulletsFX,
    threatSpawnTimer,
    sinceFrame,          \* wall clock since clock.getDelta() was last called
    sinceShot,           \* wall clock since lastShotTime, capped
    fpsHist,             \* history: what has happened to whom
    \* ---- src/unnamed/part_000 (playground) ----
    currentGravityPreset,
    lastClickedObject,   \* an object name or "none"
    gravityState,        \* [active, object, velocityY, floorY]
    animationPaused,     \* [sphere, torus, cube]
    position,            \* mesh.position of the five clickable objects
    tilt,                \* orientation of the torus and of the cube: 0 or 1
    timeElapsed,         \* ms, modulo the period of the sphere's idle bounce
    moveInput,           \* [forward, back, left, right]
    dynamicBodies,       \* spawned falling spheres
    projectiles,
    floorRequest,        \* the file last asked of textureLoader for the floor
    pgHist,              \* history: budgets and the last operation
    \* ---- src/waves.js ----
    isPaused, stepOnce,
    params,              \* the impulse settings of params
    impulseVel, impulsePos,
    wvHist               \* history: budgets, updateWave() calls, step requests

fpsVars == <<hp, score, kills, isDead, ammo, isPointerLocked, lockEl, yaw,
             camera, keys, playerVelY, onGround, threats, debris, bulletsFX,
             threatSpawnTimer, sinceFrame, sinceShot, fpsHist>>

pgVars == <<currentGravityPreset, lastClickedObject, gravityState,
            animationPaused, position, tilt, timeElapsed, moveInput,
            dynamicBodies, projectiles, floorRequest, pgHist>>

wvVars == <<isPaused, stepOnce, params, impulseVel, impulsePos, wvHist>>

vars == <<fpsVars, pgVars, wvVars>>

(***************************************************************************)
(* Generic helpers                                                         *)
(***************************************************************************)
Min(a, b) == IF a <= b THEN a ELSE b
Max(a, b) == IF a >= b THEN a ELSE b
Abs(a) == IF a < 0 THEN -a ELSE a

\* v * dt with dt in ms: the per-second quantity v over dt milliseconds.
Scale(v, dt) == (v * dt) \div 1000

\* seq without its i-th element: Array.prototype.splice(i, 1)
Splice(seq, i) == [k \in 1..(Len(seq) - 1) |-> IF k < i THEN seq[k] ELSE seq[k + 1]]

(***************************************************************************)
(* FPS: program constants (src/fps.js)                                     *)
(***************************************************************************)
maxHP == 100
eyeHeight == 170
startZ == 800
walkSpeed == 600
sprintSpeed == 1000
jumpVel == 650
gravity == -1400
startAmmo == 999
fireInterval == 100          \* 1 / fireRate seconds, in ms
maxDistance == 8000
maxDelta == 33               \* Math.min(clock.getDelta(), 0.033)
playerRadius == 55
playerCenterDrop == 70       \* eyeHeight - playerCenterOffsetY
aimDrop == 35                \* aimAt.y = camera.position.y - 0.35
farCutoff == 14000
threatDamage == 18
weaponDamage == 28
knockback == 1000
threatScore == 100
tracerLife == 50
respawnSpawnTimer == 150
threatSpawnEvery == 750
threatSpawnJitter == 350

(***************************************************************************)
(* FPS: bounds of the model                                                *)
(***************************************************************************)
MaxSpawns == 3               \* threat ids per life
MaxShots == 2                \* shots fired per life
MaxInputs == 1               \* key, look and escape gestures per life
MaxTicks == 8                \* frames simulated per life while alive

ThreatIds == 1..(MaxSpawns + 1)

\* wall-clock steps between events (ms)
ClockSteps == {50}
\* draws of the spawner's Math.random() calls
SpawnDists == {1800}
SpawnSpeeds == {2430}
SpawnHPs == {45, 80}
SpawnRadii == {66}
SpawnJitters == {-350}
DebrisLives == {700}


(***************************************************************************)
(* FPS: helpers of the tick and of the handlers.  The handlers work on a   *)
(* record st of the script's globals they touch:                           *)
(*   [hp, isDead, lockEl, threats, debris, score, kills, h]                *)
(* where h is the history record fpsHist.                                  *)
(***************************************************************************)
Bump(f, id) == [f EXCEPT ![id] = @ + 1]

\* getForwardDir() restricted to the plane x = 0: the z component
Fwd(y) == IF y = 0 THEN -1 ELSE 1

Dist2(y1, z1, y2, z2) == (y1 - y2) * (y1 - y2) + (z1 - z2) * (z1 - z2)

\* die(): src/fps.js 868-888
Die(st) ==
    IF st.isDead THEN st
    ELSE [st EXCEPT !.isDead = TRUE,
                    !.lockEl = FALSE,
                    !.h.dieCount = @ + 1]

\* a takeDamage that lets hp go below 0
TakeDamageMutNoFloor(st, amount) ==
    IF st.isDead THEN st
    ELSE LET st1 == [st EXCEPT !.hp = st.hp - amount,
                               !.h.dmgCalls = @ + 1]
         IN  IF st1.hp <= 0 THEN Die(st1) ELSE st1

\* takeDamage(amount): src/fps.js 891-902
TakeDamageMutNoGuard(st, amount) ==
    LET st1 == [st EXCEPT !.hp = Max(0, st.hp - amount),
                          !.h.dmgCalls = @ + 1]
    IN  IF st1.hp <= 0 THEN [st1 EXCEPT !.isDead = TRUE, !.lockEl = FALSE,
                                        !.h.dieCount = @ + 1]
        ELSE st1

TakeDamage(st, amount) ==
    IF st.isDead THEN st
    ELSE LET st1 == [st EXCEPT !.hp = Max(0, st.hp - amount),
                               !.h.dmgCalls = @ + 1]
         IN  IF st1.hp <= 0 THEN Die(st1) ELSE st1

\* chunkCount of shatterThreat: Math.round(10 + max(0.25, radius) * 16)
ChunkCount(radius) == (1000 + Max(25, radius) * 16 + 50) \div 100

\* shatterThreat(threat, dir): src/fps.js 696-729; one batch of chunks
ShatterThreat(st, t, life) ==
    [st EXCEPT !.debris = Append(@, [n |-> ChunkCount(t.radius), life |-> life]),
               !.h.shattersOf = Bump(@, t.id),
               !.h.deadWork = IF st.isDead THEN @ + 1 ELSE @]

\* removeThreat(index): src/fps.js 526-530
RemoveThreat(st, i) ==
    [st EXCEPT !.threats = Splice(@, i),
               !.h.deadWork = IF st.isDead THEN @ + 1 ELSE @]

\* an iteration whose collision branch leaves the threat in the registry
ThreatStepMutStay(st, i, dt, cam, life) ==
    LET t    == st.threats[i]
        z1   == t.z + Scale(t.vz, dt)
        vz1  == (t.vz * 999) \div 1000
        r    == t.radius + playerRadius
        st0  == [st EXCEPT !.h.deadWork = IF st.isDead THEN @ + 1 ELSE @,
                           !.h.stepsOf = Bump(@, t.id)]
        moved == [st0 EXCEPT !.threats[i].z = z1]
        dragged == [moved EXCEPT !.threats[i].vz = vz1]
    IN  IF ~t.alive THEN st
        ELSE IF Dist2(t.y, z1, cam.y, cam.z) > farCutoff * farCutoff
             THEN RemoveThreat(moved, i)
        ELSE IF Dist2(t.y, z1, cam.y - playerCenterDrop, cam.z) <= r * r
             THEN LET hit == TakeDamage(dragged, threatDamage)
                  IN  [hit EXCEPT !.h.playerHitsOf = Bump(@, t.id),
                                  !.h.deadCalls = IF st.isDead THEN @ + 1 ELSE @]
        ELSE IF (z1 - cam.z) * Fwd(cam.yaw) < 0
             THEN RemoveThreat(dragged, i)
        ELSE dragged

\* one iteration of the for loop of updateThreats: src/fps.js 479-523
ThreatStep(st, i, dt, cam, life) ==
    LET t    == st.threats[i]
        z1   == t.z + Scale(t.vz, dt)
        vz1  == (t.vz * 999) \div 1000
        r    == t.radius + playerRadius
        st0  == [st EXCEPT !.h.deadWork = IF st.isDead THEN @ + 1 ELSE @,
                           !.h.stepsOf = Bump(@, t.id)]
        moved == [st0 EXCEPT !.threats[i].z = z1]
        dragged == [moved EXCEPT !.threats[i].vz = vz1]
    IN  IF ~t.alive THEN st
        ELSE IF Dist2(t.y, z1, cam.y, cam.z) > farCutoff * farCutoff
             THEN RemoveThreat(moved, i)
        ELSE IF Dist2(t.y, z1, cam.y - playerCenterDrop, cam.z) <= r * r
             THEN LET hit == TakeDamage(dragged, threatDamage)
                      cnt == [hit EXCEPT !.h.playerHitsOf = Bump(@, t.id),
                                         !.h.deadCalls = IF st.isDead THEN @ + 1 ELSE @]
                  IN  RemoveThreat(ShatterThreat(cnt, dragged.threats[i], life), i)
        ELSE IF (z1 - cam.z) * Fwd(cam.yaw) < 0
             THEN RemoveThreat(dragged, i)
        ELSE dragged

\* a traversal from the first index upwards
RECURSIVE ForwardFrom(_, _, _, _, _)
ForwardFrom(st, j, dt, cam, life) ==
    IF j > Len(st.threats) THEN st
    ELSE ForwardFrom(ThreatStep(st, j, dt, cam, life), j + 1, dt, cam, life)

ThreatLoopMutForward(st, i, dt, cam, life) == ForwardFrom(st, 1, dt, cam, life)

\* for (let i = threats.length - 1; i >= 0; i--)
RECURSIVE ThreatLoop(_, _, _, _, _)
ThreatLoop(st, i, dt, cam, life) ==
    IF i < 1 THEN st
    ELSE ThreatLoop(ThreatStep(st, i, dt, cam, life), i - 1, dt, cam, life)

\* spawnThreatInFront(): src/fps.js 336-457
NewThreat(id, cam, dist, speed, thp, radius) ==
    [id |-> id, y |-> cam.y - aimDrop, z |-> cam.z + Fwd(cam.yaw) * dist,
     vz |-> -Fwd(cam.yaw) * speed, radius |-> radius, hp |-> thp,
     scoreValue |-> threatScore, alive |-> TRUE]

\* updateDebris(dt): src/fps.js 732-756 (lifetimes only)
RECURSIVE Age(_, _)
Age(seq, dt) ==
    IF seq = <<>> THEN <<>>
    ELSE LET hd == [Head(seq) EXCEPT !.life = @ - dt]
         IN  IF hd.life <= 0 THEN Age(Tail(seq), dt)
             ELSE <<hd>> \o Age(Tail(seq), dt)

UpdateDebris(d, dt) == Age(d, dt)

(***************************************************************************)
(* Playground (src/unnamed/part_000): units and constants.                 *)
(* Lengths are in units of 1e-8 m (Fine units per mm), times in ms,        *)
(* velocities in 1e-5 m/s and accelerations in cm/s^2, so that v + a * dt  *)
(* and y + v * dt are exact.  Sizes and radii of the collision test are in *)
(* mm.                                                                     *)
(***************************************************************************)
Fine == 100 * 1000
\* projectiles: lengths in 1e-6 m
Micro == 1000

earthG == -980
moonG == -162
jupiterG == -2479
stopSpeed == 50000           \* Math.abs(velocityY) < 0.5
moveSpeed == 5               \* m/s = mm/ms
margin == 150
fallingRadius == 400         \* spawnFallingSphere: radius 0.4
projectileRadius == 250      \* spawnProjectile: radius 0.25
launchLift == 800            \* startPos.y += 0.8
baseline == 1500             \* idle bounce of the sphere
idlePeriod == 2100           \* period of |sin(1.5 t)| in ms (pi / 1.5 s)
camForwardIdx == 5           \* spherical.theta = pi / 4: forward = (-x, -z)

Objects == {"sphere", "torus", "cube", "wall", "cone"}
Spinning == {"sphere", "torus", "cube"}     \* the keys of animationPaused
Presets == {"earth", "moon", "jupiter"}

\* the moon's preset with the earth's acceleration
AccelMutMoon(preset) == IF preset = "jupiter" THEN jupiterG ELSE earthG

\* gravityPresets[preset]
Accel(preset) ==
    IF preset = "earth" THEN earthG
    ELSE IF preset = "moon" THEN moonG ELSE jupiterG

\* let plane: part_000 14.  No statement of the script assigns it.
plane == "undefined"

\* the switch of setPlanetFloor(planet), part_000 294-307
FloorFile(planet) ==
    CASE planet = "earth" -> "EarthTexture.png"
      [] planet = "jupiter" -> "JupiterTexture.jpg"
      [] planet = "moon" -> "MoonTexture.jpg"
      [] OTHER -> "none"

\* setPlanetFloor(planet), part_000 291-331: the file asked of the texture
\* loader for the floor afterwards; req is the one asked for before
SetPlanetFloor(planet, req) ==
    IF plane = "undefined" THEN req ELSE FloorFile(planet)

\* the argument onGravityPresetChange passes to setPlanetFloor, 741-752
FloorOf(preset) == IF preset = "moon" THEN "mars" ELSE preset

\* amplitude * |sin(timeElapsed * 1.5)| in mm, tabulated every 100 ms
IdleTable ==
    <<0, 89, 177, 260, 338, 408, 469, 520, 559, 585, 598,
      598, 585, 559, 520, 469, 408, 338, 260, 177, 89>>

IdleLift(t) == IdleTable[(t \div 100) + 1]

\* the size of new THREE.Box3().setFromObject(object) in mm.  The torus and
\* the cube turn while their animation runs; tilt 0 is the orientation they
\* are created in, tilt 1 a quarter turn about x for the torus and
\* rotation (pi/4, 3pi/4, 0) for the cube.
BoxSize(obj, tl) ==
    IF obj = "sphere" THEN [x |-> 2000, y |-> 2000, z |-> 2000]
    ELSE IF obj = "torus"
         THEN (IF tl.torus = 0 THEN [x |-> 2500, y |-> 2500, z |-> 500]
               ELSE [x |-> 2500, y |-> 500, z |-> 2500])
    ELSE IF obj = "cube"
         THEN (IF tl.cube = 0 THEN [x |-> 1200, y |-> 1200, z |-> 1200]
               ELSE [x |-> 1697, y |-> 2049, z |-> 2049])
    ELSE IF obj = "wall" THEN [x |-> 300, y |-> 2500, z |-> 8000]
    ELSE [x |-> 1400, y |-> 1600, z |-> 1400]

\* Math.sqrt on naturals, rounded down
RECURSIVE SqrtIter(_, _)
SqrtIter(n, x) ==
    LET y == (x + n \div x) \div 2
    IN  IF y >= x THEN x ELSE SqrtIter(n, y)

ISqrt(n) == IF n = 0 THEN 0 ELSE SqrtIter(n, n)

\* getApproxRadius(object): size.length() * 0.4
GetApproxRadius(obj, tl) ==
    LET b == BoxSize(obj, tl)
    IN  (ISqrt(b.x * b.x + b.y * b.y + b.z * b.z) * 4) \div 10

\* newPos.distanceTo(otherPos) < minDist, in mm
TooClose(a, b, minDist) ==
    LET dx == Abs(a.x - b.x) \div Fine
        dy == Abs(a.y - b.y) \div Fine
        dz == Abs(a.z - b.z) \div Fine
    IN  /\ dx < minDist /\ dy < minDist /\ dz < minDist
        /\ dx * dx + dy * dy + dz * dz < minDist * minDist

\* unit vectors of the ground plane every 45 degrees, in 1e-4
Dir8(k) ==
    LET t == <<[x |-> 10000, z |-> 0], [x |-> 7071, z |-> 7071],
               [x |-> 0, z |-> 10000], [x |-> -7071, z |-> 7071],
               [x |-> -10000, z |-> 0], [x |-> -7071, z |-> -7071],
               [x |-> 0, z |-> -10000], [x |-> 7071, z |-> -7071]>>
    IN  t[(k % 8) + 1]

\* the normalised dir of updateLastClickedMovement as an index of Dir8, or -1
\* when no key (or two opposite keys) is down.  camRight is camForward
\* turned by a quarter.
MoveDir(mi) ==
    LET f == mi.forward - mi.back
        r == mi.right - mi.left
    IN  IF f = 0 /\ r = 0 THEN -1
        ELSE IF f = 1 /\ r = 0 THEN camForwardIdx
        ELSE IF f = 1 /\ r = 1 THEN camForwardIdx + 1
        ELSE IF f = 0 /\ r = 1 THEN camForwardIdx + 2
        ELSE IF f = -1 /\ r = 1 THEN camForwardIdx + 3
        ELSE IF f = -1 /\ r = 0 THEN camForwardIdx + 4
        ELSE IF f = -1 /\ r = -1 THEN camForwardIdx + 5
        ELSE IF f = 0 /\ r = -1 THEN camForwardIdx + 6
        ELSE camForwardIdx + 7

\* newPos = position + dir * moveSpeed * delta
Candidate(at, k, dt) ==
    [x |-> at.x + Dir8(k).x * (moveSpeed * dt) * 10,
     y |-> at.y,
     z |-> at.z + Dir8(k).z * (moveSpeed * dt) * 10]

\* minDist of updateLastClickedMovement for the pair (sel, other)
MinDist(sel, other, tl) ==
    (GetApproxRadius(sel, tl) * 6) \div 10
      + (GetApproxRadius(other, tl) * 6) \div 10 + margin

\* a movement that slides along x when the full step is blocked
UpdateLastClickedMovementMutSlide(pos, tl, sel, mi, dt) ==
    IF sel = "none" \/ MoveDir(mi) = -1 THEN pos
    ELSE LET newPos == Candidate(pos[sel], MoveDir(mi), dt)
             blocked == \E o \in Objects \ {sel} :
                            TooClose(newPos, pos[o], MinDist(sel, o, tl))
         IN  IF blocked THEN [pos EXCEPT ![sel].x = newPos.x]
             ELSE [pos EXCEPT ![sel] = newPos]

\* updateLastClickedMovement(delta): src/unnamed/part_000 933-986
UpdateLastClickedMovement(pos, tl, sel, mi, dt) ==
    IF sel = "none" \/ MoveDir(mi) = -1 THEN pos
    ELSE LET newPos == Candidate(pos[sel], MoveDir(mi), dt)
             blocked == \E o \in Objects \ {sel} :
                            TooClose(newPos, pos[o], MinDist(sel, o, tl))
         IN  IF blocked THEN pos
             ELSE [pos EXCEPT ![sel] = newPos]

\* velocityY *= -0.5
Bounce(v) == IF v <= 0 THEN (-v) \div 2 ELSE -(v \div 2)

\* position.y <= floorY.  y is a double: a sum that comes back to floorY in
\* exact arithmetic is a rounding error above or below it, so at equality
\* either outcome (tie) can be the computed one.  A body that lies on the
\* floor with a velocity that has cancelled stays at floorY exactly.
Landed(y, floorY, v, tie) == y < floorY \/ (y = floorY /\ (v = 0 \/ tie))

\* one frame of a body under gravity: part_000 1023-1040 and 1048-1058
GravityStep(b, g, dt, tie) ==
    LET v1 == b.velocityY + g * dt
        y1 == b.y + v1 * dt
        v2 == Bounce(v1)
    IN  IF Landed(y1, b.floorY, v1, tie)
        THEN [y |-> b.floorY, velocityY |-> v2, floorY |-> b.floorY,
              active |-> ~(Abs(v2) < stopSpeed)]
        ELSE [y |-> y1, velocityY |-> v1, floorY |-> b.floorY, active |-> TRUE]

\* a projectile that bounces like a falling sphere
ProjectileStepMutBounce(q, dt) ==
    LET cs  == dt \div 10
        vy1 == q.vy + q.ay * cs
        y1  == q.y + vy1 * cs
    IN  IF ~q.active THEN q
        ELSE IF y1 <= q.radius
             THEN [q EXCEPT !.h = @ + q.vh * cs, !.y = q.radius,
                            !.vy = Bounce(vy1)]
        ELSE [q EXCEPT !.h = @ + q.vh * cs, !.y = y1, !.vy = vy1]

\* a projectile that takes the acceleration of the current preset each frame
ProjectileStepMutRegrav(q, dt) ==
    LET cs  == dt \div 10
        ay1 == Accel(currentGravityPreset)
        vy1 == q.vy + ay1 * cs
        y1  == q.y + vy1 * cs
    IN  IF ~q.active THEN q
        ELSE IF y1 <= q.radius
             THEN [q EXCEPT !.h = @ + q.vh * cs, !.y = q.radius, !.vy = vy1,
                            !.ay = ay1, !.active = FALSE]
        ELSE [q EXCEPT !.h = @ + q.vh * cs, !.y = y1, !.vy = vy1, !.ay = ay1]

\* one frame of a projectile: part_000 1062-1074.  The frame time counts in
\* centiseconds here, velocities in 1e-4 m/s and lengths in 1e-6 m, so that
\* velocity += acceleration * dt and position += velocity * dt are exact.
ProjectileStep(q, dt) ==
    LET cs  == dt \div 10
        vy1 == q.vy + q.ay * cs
        y1  == q.y + vy1 * cs
    IN  IF ~q.active THEN q
        ELSE IF y1 <= q.radius
             THEN [q EXCEPT !.h = @ + q.vh * cs, !.y = q.radius, !.vy = vy1,
                            !.active = FALSE]
        ELSE [q EXCEPT !.h = @ + q.vh * cs, !.y = y1, !.vy = vy1]

(***************************************************************************)
(* Playground: bounds and draws                                            *)
(***************************************************************************)
MaxFrames == 36              \* frames of a run
InputFrames == 2             \* clicks and panel tools come in the first frames
MaxClicks == 2               \* clicks on objects
MaxGravityClicks == 1        \* presses of the gravity button
MaxPresetChanges == 1
MaxBodies == 1               \* falling spheres spawned
MaxProjectiles == 1          \* projectiles in the registry
MaxMoves == 5                \* frames in which the selection is moved
MaxKeys == 2                 \* key events

SlowDeltas == {100}          \* clock.getDelta() of a slow device, ms
SpawnHeights == {6500}       \* 5 + Math.random() * 3, mm
NoTurn == {[torus |-> 0, cube |-> 0]}
\* (horizontal, vertical) launch velocity for speed 10: elevation 45, 90, -30
Launches == {[vh |-> 70711, vy |-> 70711], [vh |-> 0, vy |-> 100000],
             [vh |-> 86603, vy |-> -50000]}
ExtraAccels == {0, 3000}     \* the "extra acceleration" input, cm/s^2

(***************************************************************************)
(* Playground: initial state, init() of part_000 (159-289)                 *)
(***************************************************************************)
NoPgHist ==
    [frames |-> 0, clicks |-> 0, gravityClicks |-> 0, presetChanges |-> 0,
     moves |-> 0, blocked |-> 0, rested |-> 0, keys |-> 0, alerts |-> 0,
     lastOp |-> "init", dt |-> 0]

PgInit ==
    /\ currentGravityPreset = "earth"
    /\ lastClickedObject = "none"
    /\ gravityState = [active |-> FALSE, object |-> "none", velocityY |-> 0,
                       floorY |-> 0]
    /\ animationPaused = [sphere |-> FALSE, torus |-> FALSE, cube |-> FALSE]
    /\ position =
         [o \in Objects |->
            IF o = "sphere" THEN [x |-> 0, y |-> 10000 * Fine, z |-> 0]
            ELSE IF o = "torus" THEN [x |-> 14142 * Fine, y |-> 14142 * Fine, z |-> 0]
            ELSE IF o = "cube" THEN [x |-> 12990 * Fine, y |-> 7500 * Fine, z |-> 0]
            ELSE IF o = "wall" THEN [x |-> 0, y |-> 1250 * Fine, z |-> -4000 * Fine]
            ELSE [x |-> -1500 * Fine, y |-> 800 * Fine, z |-> 3000 * Fine]]
    /\ tilt = [torus |-> 0, cube |-> 0]
    /\ timeElapsed = 0
    /\ moveInput = [forward |-> 0, back |-> 0, left |-> 0, right |-> 0]
    /\ dynamicBodies = <<>>
    /\ projectiles = <<>>
    /\ floorRequest = "none"
    /\ pgHist = NoPgHist

\* the other pages are not loaded
PgOnly == UNCHANGED <<fpsVars, wvVars>>

(***************************************************************************)
(* Wave lab: constants and functions (src/waves.js)                        *)
(***************************************************************************)
stiffness == 24              \* k of stepImpulse
posLimit == 3000             \* clamp(impulsePos[i], -3.0, 3.0)
dampLimit == 200             \* clamp(params.damping, 0, 0.2)
kick == 35                   \* strength * falloff * 3.5, in tenths
minFall == 1                 \* Math.max(0.001, params.impulseFalloff)

PointCount == 3              \* params.pointCount points
MaxWaveFrames == 6
MaxWaveClicks == 2
MaxPanelEvents == 1          \* sliders, toggles, presets, Reset, rebuilds
WaveInputFrames == 2         \* clicks and panel settings come in the first frames
MaxSteps == 2                \* Step requests
MaxToggles == 1              \* Pause / Resume

Indices == 0..(PointCount - 1)
\* Math.min(clock.getDelta(), 0.033) right after another getDelta(), ms
WaveDeltas == {0, 33}
\* the frame times of the field runs: the largest one
FieldDeltas == {33}
\* the time between two frames, ms: a 60 Hz display, a slow frame
FrameTimes == {16, 50}
readCap == 50                \* longest time counted between two clock reads
PresetNames == {"sine", "beats", "standing", "calm"}
\* slider positions: (key, value)
SliderDraws ==
    {<<"damping", 80>>, <<"impulseStrength", 3000>>, <<"impulseRadius", 1>>,
     <<"impulseFalloff", 0>>}

Clamp(v, a, b) == Max(a, Min(b, v))

\* Math.pow(t, 1.4) at the arguments 1 - d / radius that occur
Pow14(t) ==
    CASE t = 1000 -> 1000
      [] t = 875 -> 829
      [] t = 833 -> 774
      [] t = 750 -> 668
      [] t = 666 -> 566
      [] t = 625 -> 517
      [] t = 500 -> 378
      [] t = 333 -> 214
      [] t = 0 -> 0

\* Math.pow(t, fall) for 0 <= t <= 1 and the exponents in use
Pow(t, fall) ==
    IF fall = 1000 THEN t
    ELSE IF fall = 2000 THEN (t * t) \div 1000
    ELSE IF fall = 1400 THEN Pow14(t)
    ELSE IF t = 0 THEN 0 ELSE IF t = 1000 THEN 1000 ELSE 999

\* stepImpulse(dt) that leaves impulsePos unclamped
StepImpulseMutNoClamp(dt) ==
    LET damp == Clamp(params.damping, 0, dampLimit)
        v1 == [i \in Indices |->
                 ((impulseVel[i] + Scale(-impulsePos[i] * stiffness, dt))
                    * (1000 - damp)) \div 1000]
    IN  [vel |-> v1,
         pos |-> [i \in Indices |-> impulsePos[i] + Scale(v1[i], dt)]]

\* stepImpulse(dt): src/waves.js 594-604
StepImpulse(dt) ==
    LET damp == Clamp(params.damping, 0, dampLimit)
        v1 == [i \in Indices |->
                 ((impulseVel[i] + Scale(-impulsePos[i] * stiffness, dt))
                    * (1000 - damp)) \div 1000]
    IN  [vel |-> v1,
         pos |-> [i \in Indices |->
                    Clamp(impulsePos[i] + Scale(v1[i], dt), -posLimit, posLimit)]]

\* impulsePos[i] + impulseVel[i] * dt of stepImpulse, before the clamp
RawPos(dt) ==
    LET damp == Clamp(params.damping, 0, dampLimit)
    IN  [i \in Indices |->
           impulsePos[i]
             + Scale(((impulseVel[i] + Scale(-impulsePos[i] * stiffness, dt))
                        * (1000 - damp)) \div 1000, dt)]

\* an addImpulseAtIndex that wraps around the ends of the line
AddImpulseAtIndexMutWrap(centerIdx) ==
    LET strength == params.impulseStrength
        radius == Max(1, params.impulseRadius)
    IN  [i \in Indices |->
           IF \E j \in (centerIdx - radius)..(centerIdx + radius) :
                 j % PointCount = i
           THEN impulseVel[i] + (strength * kick) \div 10
           ELSE impulseVel[i]]

\* addImpulseAtIndex(centerIdx): src/waves.js 698-712
AddImpulseAtIndex(centerIdx) ==
    LET strength == params.impulseStrength
        radius == Max(1, params.impulseRadius)
        fall == Max(minFall, params.impulseFalloff)
    IN  [i \in Indices |->
           IF i < centerIdx - radius \/ i > centerIdx + radius
           THEN impulseVel[i]
           ELSE LET d == Abs(i - centerIdx)
                    t == (1000 * (radius - d)) \div radius
                    falloff == Pow(Max(0, t), fall)
                IN  impulseVel[i] + (strength * falloff * kick) \div 10000]

Still == [i \in Indices |-> 0]

(***************************************************************************)
(* Wave lab: initial state (src/waves.js 22-23, 33-81)                     *)
(***************************************************************************)
NoWvHist ==
    [frames |-> 0, clicks |-> 0, panel |-> 0, steps |-> 0, toggles |-> 0,
     updates |-> 0, pending |-> 0, clamped |-> FALSE,
     sinceRead |-> 0,    \* ms since the clock was last read, up to readCap
     frame |-> 0,        \* the dt of the last animate(), line 765
     dt |-> -1]          \* what its updateWave() gave stepImpulse, -1: none

WvInit ==
    /\ isPaused = FALSE
    /\ stepOnce = FALSE
    /\ params = [damping |-> 12, clickImpulseEnabled |-> TRUE,
                 impulseStrength |-> 1000, impulseRadius |-> 6,
                 impulseFalloff |-> 1000]
    /\ impulseVel = Still
    /\ impulsePos = Still
    /\ wvHist = NoWvHist

WvOnly == UNCHANGED <<fpsVars, pgVars>>

\* clicks and settings are still coming
WaveInputOpen == wvHist.frames < WaveInputFrames

PanelInUse == wvHist.panel < MaxPanelEvents /\ WaveInputOpen

(***************************************************************************)
(* FPS: initial state (the module-level lets and init(), src/fps.js 12-180)*)
(***************************************************************************)
NoHist ==
    [dieCount |-> 0, dmgCalls |-> 0, deadCalls |-> 0, nextId |-> 1, shots |-> 0, deadWork |-> 0,
     inputs |-> 0, ticks |-> 0,
     killsOf |-> [i \in ThreatIds |-> 0], shattersOf |-> [i \in ThreatIds |-> 0],
     playerHitsOf |-> [i \in ThreatIds |-> 0], stepsOf |-> [i \in ThreatIds |-> 0],
     dmgOf |-> [i \in ThreatIds |-> 0], hp0Of |-> [i \in ThreatIds |-> 0],
     lastOp |-> "other"]

StartCamera == [y |-> eyeHeight, z |-> startZ, yaw |-> 0]

\* the state when the page has loaded
FpsFresh ==
    /\ hp = maxHP
    /\ threats = <<>>
    /\ sinceShot = 0
    /\ fpsHist = NoHist

\* A state later in a game: the player has taken five hits, has left pointer
\* lock, and the last two rockets spawned (the first at 18 m with speed
\* 15.1 m/s, 32 frames ago; the second at 18 m with speed 24.3 m/s, 19
\* frames ago) are three frames from the standing player.  Earlier rockets
\* and their debris are gone.  The history starts with these two rockets.
LateThreats ==
    << [id |-> 1, y |-> eyeHeight - aimDrop, z |-> 545, vz |-> 1446,
        radius |-> 66, hp |-> 45, scoreValue |-> threatScore, alive |-> TRUE],
       [id |-> 2, y |-> eyeHeight - aimDrop, z |-> 497, vz |-> 2373,
        radius |-> 66, hp |-> 80, scoreValue |-> threatScore, alive |-> TRUE] >>

FpsLate ==
    /\ hp = maxHP - 5 * threatDamage
    /\ threats = LateThreats
    /\ sinceShot = fireInterval
    /\ fpsHist = [NoHist EXCEPT !.nextId = 3, !.hp0Of[1] = 45, !.hp0Of[2] = 80]

FpsBase ==
    /\ score = 0 /\ kills = 0 /\ isDead = FALSE
    /\ ammo = startAmmo
    /\ isPointerLocked = FALSE /\ lockEl = FALSE
    /\ yaw = 0
    /\ camera = StartCamera
    /\ keys = [w |-> FALSE, s |-> FALSE, shift |-> FALSE, space |-> FALSE]
    /\ playerVelY = 0 /\ onGround = TRUE
    /\ debris = <<>> /\ bulletsFX = <<>>
    /\ threatSpawnTimer = 0
    /\ sinceFrame = 0

FpsInit == FpsBase /\ (FpsFresh \/ FpsLate)

\* the FPS page as loaded, for the specifications of the other pages
FpsIdle == FpsBase /\ FpsFresh

\* the globals a handler works on, as one record
FpsSt ==
    [hp |-> hp, isDead |-> isDead, lockEl |-> lockEl, threats |-> threats,
     debris |-> debris, score |-> score, kills |-> kills, h |-> fpsHist]

\* the other pages are not loaded
FpsOnly == UNCHANGED <<pgVars, wvVars>>

\* boot.js loads one script; the other two have not run
FpsPage == FpsInit /\ PgInit /\ WvInit

PgPage == PgInit /\ FpsIdle /\ WvInit

WvPage == WvInit /\ FpsIdle /\ PgInit

(***************************************************************************)
(* FPS: the wall clock.  Time passes between events; animate() reads the   *)
(* time since the previous frame, onMouseDown the time since the last shot.*)
(* Both are only compared with a threshold (0.033 s, 1 / fireRate), so the *)
(* model keeps them up to that threshold.                                  *)
(***************************************************************************)
Op(name) == [fpsHist EXCEPT !.lastOp = name]

FpsClock(d) ==
    /\ FpsOnly
    /\ sinceFrame' = Min(sinceFrame + d, maxDelta)
    /\ sinceShot' = Min(sinceShot + d, fireInterval)
    /\ fpsHist' = Op("other")
    /\ UNCHANGED <<hp, score, kills, isDead, ammo, isPointerLocked, lockEl, yaw,
                   camera, keys, playerVelY, onGround, threats, debris,
                   bulletsFX, threatSpawnTimer>>

(***************************************************************************)
(* FPS: animate(), src/fps.js 1055-1132, with updateThreats 465-524.       *)
(* threatSpawnTimer is only ever tested with <= 0, so a timer that keeps   *)
(* running down while the pointer is free is kept at 0.                    *)
(***************************************************************************)
\* horizontal move of the camera: src/fps.js 1080-1094
MoveZ(k, y, dt) ==
    LET speed == IF k.shift THEN sprintSpeed ELSE walkSpeed
        dir   == (IF k.w THEN Fwd(y) ELSE 0) - (IF k.s THEN Fwd(y) ELSE 0)
    IN  dir * Scale(speed, dt)

\* updateThreats(dt): src/fps.js 465-524; the spawn, then the loop
UpdateThreats(st, dt, cam, spawnDue, newT, life) ==
    LET st1 == IF spawnDue
               THEN [st EXCEPT !.threats = Append(@, newT),
                               !.h.nextId = @ + 1,
                               !.h.hp0Of[newT.id] = newT.hp]
               ELSE st
    IN  IF st.isDead THEN st
        ELSE ThreatLoop(st1, Len(st1.threats), dt, cam, life)

\* a spawn test that does not look at the pointer lock
SpawnDueMutNoLock(timer) == timer <= 0

\* if (isPointerLocked && threatSpawnTimer <= 0): src/fps.js 471
SpawnDue(timer) == isPointerLocked /\ timer <= 0

\* animate() in a run of at most budget frames
FpsFrame(budget, jit, dist, speed, thp, radius, life) ==
    /\ FpsOnly
    /\ sinceFrame > 0
    /\ sinceFrame' = 0
    /\ UNCHANGED sinceShot
    /\ LET dt == Min(sinceFrame, maxDelta)
       IN  IF isDead
           THEN \* dead branch: debris and damage FX only
                /\ debris' = UpdateDebris(debris, dt)
                /\ fpsHist' = Op("other")
                /\ UNCHANGED <<hp, score, kills, isDead, ammo, isPointerLocked,
                               lockEl, yaw, camera, keys, playerVelY, onGround,
                               threats, bulletsFX, threatSpawnTimer>>
           ELSE LET vy1   == playerVelY + Scale(gravity, dt)
                    y1    == camera.y + Scale(vy1, dt)
                    land  == y1 <= eyeHeight
                    cam   == [y |-> IF land THEN eyeHeight ELSE y1,
                              z |-> camera.z + MoveZ(keys, yaw, dt),
                              yaw |-> yaw]
                    timer == threatSpawnTimer - dt
                    due   == SpawnDue(timer)
                    newT  == NewThreat(fpsHist.nextId, cam, dist, speed, thp, radius)
                    st    == UpdateThreats(FpsSt, dt, cam, due, newT, life)
                IN  /\ due => fpsHist.nextId <= MaxSpawns
                    /\ fpsHist.ticks < budget
                    /\ camera' = cam
                    /\ playerVelY' = IF land THEN 0 ELSE vy1
                    /\ onGround' = land
                    /\ threatSpawnTimer' = IF due THEN threatSpawnEvery + jit
                                           ELSE Max(timer, 0)
                    /\ hp' = st.hp
                    /\ isDead' = st.isDead
                    /\ lockEl' = st.lockEl
                    /\ threats' = st.threats
                    /\ debris' = UpdateDebris(st.debris, dt)
                    /\ bulletsFX' = Age(bulletsFX, dt)
                    /\ fpsHist' = [st.h EXCEPT !.lastOp = "other", !.ticks = @ + 1]
                    /\ UNCHANGED <<score, kills, ammo, isPointerLocked, yaw, keys>>

FpsTick(jit, dist, speed, thp, radius, life) ==
    FpsFrame(MaxTicks, jit, dist, speed, thp, radius, life)

(***************************************************************************)
(* FPS: input handlers                                                     *)
(***************************************************************************)
Gesture == [fpsHist EXCEPT !.lastOp = "other", !.inputs = @ + 1]

\* onClickCanvas(): src/fps.js 979-984; the browser grants the lock
OnClickCanvas ==
    /\ FpsOnly
    /\ ~isDead          \* the death screen covers the canvas
    /\ lockEl' = IF ~isPointerLocked THEN TRUE ELSE lockEl
    /\ fpsHist' = Op("other")
    /\ UNCHANGED <<hp, score, kills, isDead, ammo, isPointerLocked, yaw, camera,
                   keys, playerVelY, onGround, threats, debris, bulletsFX,
                   threatSpawnTimer, sinceFrame, sinceShot>>

\* the user leaves pointer lock with Escape
UserEscape ==
    /\ FpsOnly
    /\ lockEl
    /\ fpsHist.inputs < MaxInputs
    /\ lockEl' = FALSE
    /\ fpsHist' = Gesture
    /\ UNCHANGED <<hp, score, kills, isDead, ammo, isPointerLocked, yaw, camera,
                   keys, playerVelY, onGround, threats, debris, bulletsFX,
                   threatSpawnTimer, sinceFrame, sinceShot>>

\* onPointerLockChange(): src/fps.js 986-989
OnPointerLockChange ==
    /\ FpsOnly
    /\ isPointerLocked # lockEl
    /\ isPointerLocked' = lockEl
    /\ fpsHist' = Op("other")
    /\ UNCHANGED <<hp, score, kills, isDead, ammo, lockEl, yaw, camera, keys,
                   playerVelY, onGround, threats, debris, bulletsFX,
                   threatSpawnTimer, sinceFrame, sinceShot>>

\* a mouse move that drops the tracers
OnMouseMoveMutClear ==
    /\ FpsOnly
    /\ yaw' = IF isPointerLocked THEN 1 - yaw ELSE yaw
    /\ fpsHist.inputs < MaxInputs
    /\ fpsHist' = Gesture
    /\ bulletsFX' = <<>>
    /\ UNCHANGED <<hp, score, kills, isDead, ammo, isPointerLocked, lockEl, camera,
                   keys, playerVelY, onGround, threats, debris,
                   threatSpawnTimer, sinceFrame, sinceShot>>

\* onMouseMove(e): src/fps.js 991-999; a half turn
OnMouseMove ==
    /\ FpsOnly
    /\ yaw' = IF isPointerLocked THEN 1 - yaw ELSE yaw
    /\ fpsHist.inputs < MaxInputs
    /\ fpsHist' = Gesture
    /\ UNCHANGED <<hp, score, kills, isDead, ammo, isPointerLocked, lockEl, camera,
                   keys, playerVelY, onGround, threats, debris, bulletsFX,
                   threatSpawnTimer, sinceFrame, sinceShot>>

\* onKeyDown(e): src/fps.js 1018-1033
\* a jump test that does not look at onGround
JumpAllowedMutAlways == TRUE

\* if (onGround): src/fps.js 1028
JumpAllowed == onGround

\* onKeyDown(e) in a run of at most budget gestures
KeyDown(budget, c) ==
    /\ FpsOnly
    /\ keys' = [keys EXCEPT ![c] = TRUE]
    /\ IF c = "space" /\ JumpAllowed
       THEN playerVelY' = jumpVel /\ onGround' = FALSE
       ELSE UNCHANGED <<playerVelY, onGround>>
    /\ fpsHist.inputs < budget
    /\ fpsHist' = Gesture
    /\ UNCHANGED <<hp, score, kills, isDead, ammo, isPointerLocked, lockEl, yaw,
                   camera, threats, debris, bulletsFX, threatSpawnTimer,
                   sinceFrame, sinceShot>>

OnKeyDown(c) == KeyDown(MaxInputs, c)

\* onKeyUp(e): src/fps.js 1035-1043, in a run of at most budget gestures
KeyUp(budget, c) ==
    /\ FpsOnly
    /\ keys' = [keys EXCEPT ![c] = FALSE]
    /\ fpsHist.inputs < budget
    /\ fpsHist' = Gesture
    /\ UNCHANGED <<hp, score, kills, isDead, ammo, isPointerLocked, lockEl, yaw,
                   camera, playerVelY, onGround, threats, debris, bulletsFX,
                   threatSpawnTimer, sinceFrame, sinceShot>>

OnKeyUp(c) == KeyUp(MaxInputs, c)

\* the threats the hitscan ray can meet first: in front of the camera and
\* within shootRaycaster.far (which one depends on the aim)
InRay(t) ==
    /\ (t.z - camera.z) * Fwd(camera.yaw) > 0
    /\ Abs(t.z - camera.z) <= maxDistance

\* a kill branch that forgets removeThreat(idx)
KillThreatMutKeep(st, idx, life) ==
    LET t   == st.threats[idx]
        st1 == [st EXCEPT !.kills = @ + 1,
                          !.score = @ + t.scoreValue,
                          !.h.killsOf = Bump(@, t.id)]
    IN  ShatterThreat(st1, t, life)

\* a kill branch that adds the score without counting the kill
KillThreatMutNoCount(st, idx, life) ==
    LET t   == st.threats[idx]
        st1 == [st EXCEPT !.score = @ + t.scoreValue,
                          !.h.killsOf = Bump(@, t.id)]
    IN  RemoveThreat(ShatterThreat(st1, t, life), idx)

\* the kill branch of shoot(): src/fps.js 853-858
KillThreat(st, idx, life) ==
    LET t   == st.threats[idx]
        st1 == [st EXCEPT !.kills = @ + 1,
                          !.score = @ + t.scoreValue,
                          !.h.killsOf = Bump(@, t.id)]
    IN  RemoveThreat(ShatterThreat(st1, t, life), idx)

\* shoot() from the hit on: src/fps.js 821-858
HitThreat(st, idx, life) ==
    LET t   == st.threats[idx]
        st1 == [st EXCEPT !.threats[idx].hp = @ - weaponDamage,
                          !.threats[idx].vz = @ + Fwd(camera.yaw) * knockback,
                          !.h.dmgOf[t.id] = @ + weaponDamage]
    IN  IF ~t.alive THEN st
        ELSE IF st1.threats[idx].hp <= 0 THEN KillThreat(st1, idx, life)
        ELSE st1

\* an onMouseDown without its fire rate test
ShotBlockedMutNoRate == isDead \/ ~isPointerLocked

\* an onMouseDown without its isDead test
ShotBlockedMutNoDead == ~isPointerLocked \/ sinceShot < fireInterval

\* the early returns of onMouseDown(e): src/fps.js 1002-1009
ShotBlocked == isDead \/ ~isPointerLocked \/ sinceShot < fireInterval

\* onMouseDown(e) with shoot(): src/fps.js 1001-1016, 803-859
OnMouseDown(target, life) ==
    /\ FpsOnly
    /\ target = 0 \/ (target \in 1..Len(threats) /\ InRay(threats[target]))
    /\ IF ShotBlocked
       THEN /\ fpsHist' = Op("other")
            /\ UNCHANGED <<hp, score, kills, isDead, ammo, isPointerLocked, lockEl,
                           yaw, camera, keys, playerVelY, onGround, threats,
                           debris, bulletsFX, threatSpawnTimer, sinceFrame,
                           sinceShot>>
       ELSE /\ fpsHist.shots < MaxShots
            /\ sinceShot' = 0
            /\ IF ammo <= 0
               THEN /\ fpsHist' = Op("other")
                    /\ UNCHANGED <<score, kills, ammo, threats, debris, bulletsFX>>
               ELSE LET st0 == [FpsSt EXCEPT !.h.shots = @ + 1, !.h.lastOp = "other"]
                        st  == IF target = 0 THEN st0 ELSE HitThreat(st0, target, life)
                    IN  /\ ammo' = ammo - 1
                        /\ bulletsFX' = Append(bulletsFX, [life |-> tracerLife])
                        /\ threats' = st.threats
                        /\ debris' = st.debris
                        /\ score' = st.score
                        /\ kills' = st.kills
                        /\ fpsHist' = st.h
            /\ UNCHANGED <<hp, isDead, isPointerLocked, lockEl, yaw, camera, keys,
                           playerVelY, onGround, threatSpawnTimer, sinceFrame>>

\* a resetGame that leaves the debris in the scene
ResetGameMutKeepDebris ==
    /\ ammo' = startAmmo
    /\ isDead' = FALSE
    /\ hp' = maxHP /\ score' = 0 /\ kills' = 0
    /\ camera' = [camera EXCEPT !.y = eyeHeight, !.z = startZ]
    /\ yaw' = 0
    /\ playerVelY' = 0 /\ onGround' = TRUE
    /\ threatSpawnTimer' = respawnSpawnTimer
    /\ threats' = <<>> /\ debris' = debris /\ bulletsFX' = <<>>
    /\ fpsHist' = [NoHist EXCEPT !.lastOp = "reset"]

\* resetGame(): src/fps.js 904-960
ResetGame ==
    /\ ammo' = startAmmo
    /\ isDead' = FALSE
    /\ hp' = maxHP /\ score' = 0 /\ kills' = 0
    /\ camera' = [camera EXCEPT !.y = eyeHeight, !.z = startZ]
    /\ yaw' = 0
    /\ playerVelY' = 0 /\ onGround' = TRUE
    /\ threatSpawnTimer' = respawnSpawnTimer
    /\ threats' = <<>> /\ debris' = <<>> /\ bulletsFX' = <<>>
    /\ fpsHist' = [NoHist EXCEPT !.lastOp = "reset"]

\* respawnBtnEl.onclick: src/fps.js 686-690; the button shows on death only
RespawnClick ==
    /\ FpsOnly
    /\ isDead
    /\ ResetGame
    /\ lockEl' = TRUE
    /\ UNCHANGED <<isPointerLocked, keys, sinceFrame, sinceShot>>

KeyCodes == {"w", "space"}

FpsNext ==
    \/ \E d \in ClockSteps : FpsClock(d)
    \/ \E jit \in SpawnJitters, dist \in SpawnDists, speed \in SpawnSpeeds,
          thp \in SpawnHPs, radius \in SpawnRadii, life \in DebrisLives :
            FpsTick(jit, dist, speed, thp, radius, life)
    \/ OnClickCanvas
    \/ UserEscape
    \/ OnPointerLockChange
    \/ OnMouseMove
    \/ \E c \in KeyCodes : OnKeyDown(c)
    \/ \E c \in KeyCodes : OnKeyUp(c)
    \/ \E target \in 0..(MaxSpawns + 1), life \in DebrisLives : OnMouseDown(target, life)
    \/ RespawnClick

SpecFps == FpsPage /\ [][FpsNext]_vars

(***************************************************************************)
(* FPS: the spawner over a longer run, without shots and keys              *)
(***************************************************************************)
MaxSpawnTicks == 14

SpawnTick ==
    \E jit \in SpawnJitters, dist \in SpawnDists, speed \in SpawnSpeeds,
       thp \in SpawnHPs, radius \in SpawnRadii, life \in DebrisLives :
         FpsFrame(MaxSpawnTicks, jit, dist, speed, thp, radius, life)

SpawnNext ==
    \/ \E d \in ClockSteps : FpsClock(d)
    \/ SpawnTick
    \/ OnClickCanvas
    \/ UserEscape
    \/ OnPointerLockChange
    \/ RespawnClick

SpecSpawn == FpsPage /\ [][SpawnNext]_vars

(***************************************************************************)
(* FPS: a slow rocket on a 360 Hz display. The lock is taken and left in   *)
(* the first frames, so that one rocket is spawned; the frames go on.      *)
(***************************************************************************)
MaxDriftTicks == 800
DriftInputTicks == 4
fastFrame == 3               \* ms between two frames at 360 Hz
\* randBetween(threatMinDist, threatMaxDist) = 32: src/fps.js 72-73, 340
SlowDists == {3200}
\* randBetween(threatSpeedMin, threatSpeedMax) * speedMul = 10 * 0.75:
\* src/fps.js 74-75, 371, 431
SlowSpeeds == {750}

\* requestAnimationFrame at the refresh rate of the display
DriftClock == sinceFrame = 0 /\ FpsClock(fastFrame)

DriftTick ==
    \E jit \in SpawnJitters, dist \in SlowDists, speed \in SlowSpeeds,
       thp \in SpawnHPs, radius \in SpawnRadii, life \in DebrisLives :
         FpsFrame(MaxDriftTicks, jit, dist, speed, thp, radius, life)

DriftNext ==
    \/ DriftClock
    \/ DriftTick
    \/ fpsHist.ticks < DriftInputTicks /\ OnClickCanvas
    \/ fpsHist.ticks < DriftInputTicks /\ UserEscape
    \/ fpsHist.ticks < DriftInputTicks /\ OnPointerLockChange

SpecDrift == FpsPage /\ [][DriftNext]_vars

(***************************************************************************)
(* FPS: jumping, with the pointer free: Space and the frames of a jump     *)
(***************************************************************************)
MaxJumpTicks == 30
MaxJumpKeys == 3

JumpTick ==
    \E jit \in SpawnJitters, dist \in SpawnDists, speed \in SpawnSpeeds,
       thp \in SpawnHPs, radius \in SpawnRadii, life \in DebrisLives :
         FpsFrame(MaxJumpTicks, jit, dist, speed, thp, radius, life)

JumpNext ==
    \/ \E d \in ClockSteps : FpsClock(d)
    \/ JumpTick
    \/ KeyDown(MaxJumpKeys, "space")
    \/ KeyUp(MaxJumpKeys, "space")

SpecJump == FpsPage /\ [][JumpNext]_vars

(***************************************************************************)
(* FPS: takeDamage(amount) on its own.  The game only ever calls it with   *)
(* 18; here it is called with any of DamageAmounts, alive or dead.         *)
(***************************************************************************)
MaxDamageCalls == 6
DamageAmounts == {1, 18, 35, 250}

CallTakeDamage(amount) ==
    /\ FpsOnly
    /\ fpsHist.dmgCalls + fpsHist.deadCalls < MaxDamageCalls
    /\ LET st == TakeDamage(FpsSt, amount)
       IN  /\ hp' = st.hp
           /\ isDead' = st.isDead
           /\ lockEl' = st.lockEl
           /\ fpsHist' = [st.h EXCEPT !.lastOp = "other",
                                      !.deadCalls = IF isDead THEN @ + 1 ELSE @]
    /\ UNCHANGED <<score, kills, ammo, isPointerLocked, yaw, camera, keys,
                   playerVelY, onGround, threats, debris, bulletsFX,
                   threatSpawnTimer, sinceFrame, sinceShot>>

DamageNext ==
    \/ \E amount \in DamageAmounts : CallTakeDamage(amount)
    \/ RespawnClick

SpecDamage == FpsPage /\ [][DamageNext]_vars

(***************************************************************************)
(* FPS: properties                                                         *)
(***************************************************************************)
InRegistry(id) == \E i \in 1..Len(threats) : threats[i].id = id

RECURSIVE SumOver(_, _)
SumOver(f, S) ==
    IF S = {} THEN 0
    ELSE LET x == CHOOSE y \in S : TRUE IN f[x] + SumOver(f, S \ {x})

\* C1: once the player is dead, takeDamage(amount) leaves hp at 0 whatever
\* the amount and however often it is called, and die() takes effect at most
\* once between two resetGame() calls.
C1_DeadIsFinal ==
    /\ isDead => hp = 0
    /\ fpsHist.dieCount <= 1
    /\ isDead <=> fpsHist.dieCount = 1

\* the player is dead and takeDamage has been called twice since
C1_Witness == isDead /\ fpsHist.deadCalls >= 2 /\ fpsHist.dieCount = 1

\* C2: per threat the kill counter is incremented at most once and
\* shatterThreat runs at most once; once the weapon damage it has received
\* reaches its initial hp there has been exactly one kill increment (kills by
\* 1, score by scoreValue) and one fragmentation, and it has left the registry.
C2_OneKillPerThreat ==
    /\ \A id \in ThreatIds :
          /\ fpsHist.killsOf[id] <= 1
          /\ fpsHist.shattersOf[id] <= 1
          /\ (fpsHist.hp0Of[id] > 0 /\ fpsHist.dmgOf[id] >= fpsHist.hp0Of[id])
                => /\ fpsHist.killsOf[id] = 1
                   /\ fpsHist.shattersOf[id] = 1
                   /\ ~InRegistry(id)
          /\ fpsHist.killsOf[id] = 1 => fpsHist.dmgOf[id] >= fpsHist.hp0Of[id]
    /\ kills = SumOver(fpsHist.killsOf, ThreatIds)
    /\ score = threatScore * kills

\* a threat has been shot down, and another one is still flying
C2_Witness ==
    \E id \in ThreatIds :
        /\ fpsHist.killsOf[id] = 1
        /\ fpsHist.dmgOf[id] >= fpsHist.hp0Of[id]
        /\ kills = 1 /\ score = threatScore
        /\ threats # <<>>

\* C3 as stated: from the moment isDead becomes true until resetGame() no
\* threat is advanced, fragmented or removed.
C3_NothingAfterDeath == fpsHist.deadWork = 0

\* C3, amended: every animation tick and input event that starts while the
\* player is dead, other than resetGame(), leaves hp, score, kills, the
\* camera position and the threat registry unchanged, works on no threat and
\* fires no shot.
C3_FrozenWhileDead ==
    [][(isDead /\ fpsHist'.lastOp # "reset")
         => /\ hp' = hp /\ score' = score /\ kills' = kills
            /\ camera'.y = camera.y /\ camera'.z = camera.z
            /\ threats' = threats
            /\ ammo' = ammo /\ bulletsFX' = bulletsFX
            /\ fpsHist'.shots = fpsHist.shots
            /\ fpsHist'.nextId = fpsHist.nextId
            /\ fpsHist'.deadWork = fpsHist.deadWork
            /\ fpsHist'.stepsOf = fpsHist.stepsOf
            /\ fpsHist'.shattersOf = fpsHist.shattersOf]_vars

\* dead, the script still believes the pointer locked, a threat is in the
\* registry, and a frame has passed since the death (the debris has aged twice)
C3_Witness ==
    /\ isDead /\ isPointerLocked
    /\ threats # <<>>
    /\ debris # <<>> /\ debris[1].life <= 700 - 2 * maxDelta

\* C4: resetGame() is the only operation that takes the player from dead to
\* alive, and right after it hp = maxHP, score = 0, kills = 0, the camera is at
\* (0, eyeHeight, 8) and the threat, debris and tracer registries are empty.
C4_ResetOnlyWayBack ==
    /\ [][(isDead /\ ~isDead') => fpsHist'.lastOp = "reset"]_vars
    /\ [](fpsHist.lastOp = "reset"
            => /\ ~isDead
               /\ hp = maxHP /\ score = 0 /\ kills = 0
               /\ camera.y = eyeHeight /\ camera.z = startZ
               /\ threats = <<>> /\ debris = <<>> /\ bulletsFX = <<>>)

\* the state right after a resetGame()
C4_Witness == fpsHist.lastOp = "reset" /\ ~isDead /\ hp = maxHP

(***************************************************************************)
(* Playground: animate(), src/unnamed/part_000 991-1080.  delta is the     *)
(* unclamped clock.getDelta().  tq is the orientation the torus and the    *)
(* cube have reached in this frame if they are turning.                    *)
(***************************************************************************)
PgOp(name, dt) == [pgHist EXCEPT !.lastOp = name, !.dt = dt]

\* the body the gravity button acts on, as a record like a dynamic body
BoundBody(pos) ==
    [y |-> pos[gravityState.object].y, velocityY |-> gravityState.velocityY,
     floorY |-> gravityState.floorY, active |-> TRUE]

\* clicks and panel tools are still coming
PanelOpen == pgHist.frames < InputFrames

Animate(dt, tq, tie) ==
    /\ PgOnly
    /\ LET g    == Accel(currentGravityPreset)
           t1   == (timeElapsed + dt) % idlePeriod
           \* the sphere's idle bounce
           p1   == IF ~animationPaused.sphere
                   THEN [position EXCEPT
                           !["sphere"].y = (baseline + IdleLift(t1)) * Fine]
                   ELSE position
           tl1  == [o \in {"torus", "cube"} |->
                      IF animationPaused[o] THEN tilt[o] ELSE tq[o]]
           \* gravity on the selected object
           gOn  == gravityState.active /\ gravityState.object # "none"
           b1   == GravityStep(BoundBody(p1), g, dt, tie)
           p2   == IF gOn THEN [p1 EXCEPT ![gravityState.object].y = b1.y]
                   ELSE p1
           moving == lastClickedObject # "none" /\ MoveDir(moveInput) # -1
           p3   == UpdateLastClickedMovement(p2, tl1, lastClickedObject,
                                             moveInput, dt)
       IN  /\ moving => pgHist.moves < MaxMoves
           /\ pgHist.frames < MaxFrames
           /\ timeElapsed' = t1
           /\ tilt' = tl1
           /\ gravityState' =
                IF ~gOn THEN gravityState
                ELSE IF b1.active
                     THEN [gravityState EXCEPT !.velocityY = b1.velocityY]
                ELSE [gravityState EXCEPT !.velocityY = b1.velocityY,
                                          !.active = FALSE, !.object = "none"]
           /\ animationPaused' =
                IF gOn /\ ~b1.active /\ gravityState.object \in Spinning
                THEN [animationPaused EXCEPT ![gravityState.object] = FALSE]
                ELSE animationPaused
           /\ dynamicBodies' =
                [i \in 1..Len(dynamicBodies) |->
                   IF dynamicBodies[i].active
                   THEN GravityStep(dynamicBodies[i], g, dt, tie)
                   ELSE dynamicBodies[i]]
           /\ projectiles' =
                [i \in 1..Len(projectiles) |-> ProjectileStep(projectiles[i], dt)]
           /\ position' = p3
           /\ pgHist' = [pgHist EXCEPT
                           !.lastOp = "tick", !.dt = dt, !.frames = @ + 1,
                           !.moves = IF moving THEN @ + 1 ELSE @,
                           !.blocked = IF moving /\ p3 = p2 THEN @ + 1 ELSE @,
                           !.rested = IF \E i \in 1..Len(projectiles) :
                                            ~projectiles[i].active
                                      THEN Min(@ + 1, 2) ELSE @]
    /\ UNCHANGED <<floorRequest, currentGravityPreset, lastClickedObject, moveInput>>

(***************************************************************************)
(* Playground: handlers                                                    *)
(***************************************************************************)
\* onClick(event): part_000 676-697; hit is the object under the pointer
OnClick(hit) ==
    /\ PgOnly
    /\ pgHist.clicks < MaxClicks /\ PanelOpen
    /\ IF hit = "none"
       THEN UNCHANGED <<lastClickedObject, gravityState>>
       ELSE /\ lastClickedObject' = hit
            /\ gravityState' = [gravityState EXCEPT !.active = FALSE,
                                                    !.object = "none"]
    /\ pgHist' = [pgHist EXCEPT !.lastOp = "click", !.clicks = @ + 1]
    /\ UNCHANGED <<floorRequest, currentGravityPreset, animationPaused, position, tilt,
                   timeElapsed, moveInput, dynamicBodies, projectiles>>

\* a gravity button that binds whatever lastClickedObject holds
OnGravityButtonClickMutNoGuard ==
    /\ PgOnly
    /\ pgHist.gravityClicks < MaxGravityClicks /\ PanelOpen
    /\ gravityState' =
         [active |-> TRUE, object |-> lastClickedObject, velocityY |-> 0,
          floorY |-> 1000 * Fine]
    /\ pgHist' = [pgHist EXCEPT !.lastOp = "gravity", !.gravityClicks = @ + 1]
    /\ UNCHANGED <<floorRequest, currentGravityPreset, lastClickedObject,
                   animationPaused, position, tilt, timeElapsed, moveInput,
                   dynamicBodies, projectiles>>

\* onGravityButtonClick(): part_000 711-731
OnGravityButtonClick ==
    /\ PgOnly
    /\ pgHist.gravityClicks < MaxGravityClicks /\ PanelOpen
    /\ IF lastClickedObject = "none"
       THEN UNCHANGED <<gravityState, animationPaused>>
       ELSE /\ gravityState' =
                 [active |-> TRUE, object |-> lastClickedObject, velocityY |-> 0,
                  floorY |-> (BoxSize(lastClickedObject, tilt).y * Fine) \div 2]
            /\ animationPaused' =
                 IF lastClickedObject \in Spinning
                 THEN [animationPaused EXCEPT ![lastClickedObject] = TRUE]
                 ELSE animationPaused
    /\ pgHist' = [pgHist EXCEPT
                    !.lastOp = "gravity", !.gravityClicks = @ + 1,
                    !.alerts = IF lastClickedObject = "none" THEN @ + 1 ELSE @]
    /\ UNCHANGED <<floorRequest, currentGravityPreset, lastClickedObject, position, tilt,
                   timeElapsed, moveInput, dynamicBodies, projectiles>>

\* onGravityPresetChange(): part_000 736-753
OnGravityPresetChange(preset) ==
    /\ PgOnly
    /\ pgHist.presetChanges < MaxPresetChanges /\ PanelOpen
    /\ currentGravityPreset' = preset
    /\ floorRequest' = SetPlanetFloor(FloorOf(preset), floorRequest)
    /\ pgHist' = [pgHist EXCEPT !.lastOp = "preset", !.presetChanges = @ + 1]
    /\ UNCHANGED <<lastClickedObject, gravityState, animationPaused, position,
                   tilt, timeElapsed, moveInput, dynamicBodies, projectiles>>

\* spawnFallingSphere(): part_000 759-781; h is 5 + Math.random() * 3
SpawnFallingSphere(h) ==
    /\ PgOnly
    /\ Len(dynamicBodies) < MaxBodies /\ PanelOpen
    /\ dynamicBodies' = Append(dynamicBodies,
                               [y |-> h * Fine, velocityY |-> 0,
                                floorY |-> fallingRadius * Fine, active |-> TRUE])
    /\ pgHist' = PgOp("spawn", pgHist.dt)
    /\ UNCHANGED <<floorRequest, currentGravityPreset, lastClickedObject, gravityState,
                   animationPaused, position, tilt, timeElapsed, moveInput,
                   projectiles>>

\* spawnProjectile(): part_000 786-850; launch is the velocity the speed and
\* the two angles give, extra the extra acceleration
SpawnProjectile(launch, extra) ==
    /\ PgOnly
    /\ Len(projectiles) < MaxProjectiles /\ PanelOpen
    /\ projectiles' =
         Append(projectiles,
                [h |-> 0,
                 y |-> IF lastClickedObject # "none"
                       THEN position[lastClickedObject].y \div (Fine \div Micro)
                            + launchLift * Micro
                       ELSE 1000 * Micro,
                 vh |-> launch.vh, vy |-> launch.vy,
                 ay |-> Accel(currentGravityPreset) + extra,
                 radius |-> projectileRadius * Micro, active |-> TRUE])
    /\ pgHist' = PgOp("launch", pgHist.dt)
    /\ UNCHANGED <<floorRequest, currentGravityPreset, lastClickedObject, gravityState,
                   animationPaused, position, tilt, timeElapsed, moveInput,
                   dynamicBodies>>

\* clearProjectiles(): part_000 852-860
ClearProjectiles ==
    /\ PgOnly
    /\ projectiles' = <<>>
    /\ pgHist' = [PgOp("clear", pgHist.dt) EXCEPT !.rested = 0]
    /\ UNCHANGED <<floorRequest, currentGravityPreset, lastClickedObject, gravityState,
                   animationPaused, position, tilt, timeElapsed, moveInput,
                   dynamicBodies>>

\* onKeyDown(event) / onKeyUp(event): part_000 639-672
PgKey(k, down) ==
    /\ PgOnly
    /\ pgHist.keys < MaxKeys
    /\ moveInput' = [moveInput EXCEPT ![k] = IF down THEN 1 ELSE 0]
    /\ pgHist' = [pgHist EXCEPT !.lastOp = "key", !.keys = @ + 1]
    /\ UNCHANGED <<floorRequest, currentGravityPreset, lastClickedObject, gravityState,
                   animationPaused, position, tilt, timeElapsed, dynamicBodies,
                   projectiles>>

PgOnKeyDown(k) == PgKey(k, TRUE)

PgOnKeyUp(k) == PgKey(k, FALSE)

\* the keys held in the runs: W and D
MoveKeys == {"forward", "right"}

(***************************************************************************)
(* Playground: the gravity tools on a slow device                          *)
(***************************************************************************)
GravFrame == \E tie \in BOOLEAN, tq \in NoTurn, dt \in SlowDeltas : Animate(dt, tq, tie)

GravNext ==
    \/ \E hit \in {"torus", "none"} : OnClick(hit)
    \/ OnGravityButtonClick
    \/ \E preset \in Presets : OnGravityPresetChange(preset)
    \/ \E h \in SpawnHeights : SpawnFallingSphere(h)
    \/ GravFrame

SpecGravity == PgPage /\ [][GravNext]_vars

(***************************************************************************)
(* Playground: selecting and moving objects                                *)
(***************************************************************************)
MoveNext ==
    \/ \E hit \in {"sphere", "cone"} : OnClick(hit)
    \/ \E k \in MoveKeys : PgOnKeyDown(k)
    \/ \E k \in MoveKeys : PgOnKeyUp(k)
    \/ \E tq \in NoTurn, dt \in SlowDeltas : Animate(dt, tq, TRUE)

SpecMove == PgPage /\ [][MoveNext]_vars

(***************************************************************************)
(* Playground: projectiles                                                 *)
(***************************************************************************)
ProjNext ==
    \/ \E hit \in {"cone"} : OnClick(hit)
    \/ \E preset \in Presets : OnGravityPresetChange(preset)
    \/ \E launch \in Launches, extra \in ExtraAccels : SpawnProjectile(launch, extra)
    \/ ClearProjectiles
    \/ \E tq \in NoTurn, dt \in SlowDeltas : Animate(dt, tq, TRUE)

SpecProjectile == PgPage /\ [][ProjNext]_vars

(***************************************************************************)
(* Playground: properties                                                  *)
(***************************************************************************)
\* the body the gravity button has bound, if it is falling
Falling ==
    IF gravityState.active /\ gravityState.object # "none"
    THEN {BoundBody(position)} ELSE {}

\* the bodies that are falling or bouncing
ActiveBodies ==
    Falling \cup {dynamicBodies[i] : i \in {j \in 1..Len(dynamicBodies) :
                                               dynamicBodies[j].active}}

\* a body that a frame of the last frame time gives back as it is
Steady(b) ==
    /\ pgHist.dt > 0
    /\ \A tie \in BOOLEAN :
          GravityStep(b, Accel(currentGravityPreset), pgHist.dt, tie) = b

\* C5: a body under gravity comes to rest after finitely many frames, at
\* y = floorY.  On a finite run: a body at rest lies at floorY, and no body
\* that is still active is in a state that the next frame repeats, since
\* the frames that follow would then never bring it to rest.
C5_BodiesComeToRest ==
    /\ \A i \in 1..Len(dynamicBodies) :
          ~dynamicBodies[i].active => dynamicBodies[i].y = dynamicBodies[i].floorY
    /\ \A b \in ActiveBodies : ~Steady(b)

\* C6: the frame that integrates an active projectile to y <= radius puts
\* it at y = radius and deactivates it, any other frame leaves it active at
\* the integrated height; an inactive projectile is never changed while it
\* stays in the registry, and an active one is above its radius.
C6_Frozen ==
    [][\A i \in 1..Len(projectiles) :
          i <= Len(projectiles') =>
             LET q   == projectiles[i]
                 q1  == projectiles'[i]
                 cs  == pgHist'.dt \div 10
                 vy1 == q.vy + q.ay * cs
                 y1  == q.y + vy1 * cs
             IN  /\ ~q.active => q1 = q
                 /\ (q.active /\ pgHist'.lastOp = "tick") =>
                       IF y1 <= q.radius
                       THEN q1.y = q.radius /\ ~q1.active
                       ELSE q1.y = y1 /\ q1.active
                 /\ (q.active /\ pgHist'.lastOp # "tick") => q1 = q]_vars

C6_Resting ==
    \A i \in 1..Len(projectiles) :
       IF projectiles[i].active THEN projectiles[i].y > projectiles[i].radius
       ELSE projectiles[i].y = projectiles[i].radius

C6_LandedStaysLanded == C6_Frozen /\ []C6_Resting

\* a projectile has landed and frames have passed over it since
C6_Witness ==
    /\ pgHist.rested = 2
    /\ \E i \in 1..Len(projectiles) : ~projectiles[i].active

\* the threshold of C8 for the pair (sel, other), mm
C8_Threshold(sel, other, tl) ==
    (6 * GetApproxRadius(sel, tl)) \div 10
      + (6 * GetApproxRadius(other, tl)) \div 10 + 150

\* C8: in a frame with a movement key down and an object selected, the
\* candidate is the selected object's place displaced by the whole step; if
\* it is closer than the threshold to some other object the selected object
\* keeps its horizontal place entirely, otherwise it is at the candidate.
C8_AllOrNothing ==
    [][(/\ pgHist'.lastOp = "tick"
        /\ lastClickedObject # "none"
        /\ MoveDir(moveInput) # -1) =>
          LET sel  == lastClickedObject
              step == moveSpeed * pgHist'.dt * 10
              cand == [x |-> position[sel].x + Dir8(MoveDir(moveInput)).x * step,
                       y |-> position'[sel].y,
                       z |-> position[sel].z + Dir8(MoveDir(moveInput)).z * step]
              near == \E o \in Objects \ {sel} :
                         TooClose(cand, position'[o], C8_Threshold(sel, o, tilt'))
          IN  IF near
              THEN /\ position'[sel].x = position[sel].x
                   /\ position'[sel].z = position[sel].z
              ELSE position'[sel] = cand]_vars

\* a step has been refused and a step has been taken
C8_Witness ==
    /\ pgHist.blocked >= 1
    /\ pgHist.moves - pgHist.blocked >= 1
    /\ pgHist.lastOp = "tick"

\* C9: the selected object is never closer to another object than the
\* threshold of the movement check.  Stated with 100 mm to spare, so that
\* the rounding of the distances of this model decides no case.
C9_SelectedKeepsDistance ==
    lastClickedObject # "none" =>
       \A o \in Objects \ {lastClickedObject} :
          ~TooClose(position[lastClickedObject], position[o],
                    MinDist(lastClickedObject, o, tilt) - 100)

\* C11: a click that selects an object while the gravity button's binding is
\* active cancels the binding (active false, no object bound) and clears
\* the pause flag of the object that was bound, so that its idle animation
\* runs again from the next frame.
C11_ClickRestoresIdle ==
    [][\A hit \in Objects :
          (OnClick(hit) /\ gravityState.active) =>
             /\ ~gravityState'.active
             /\ gravityState'.object = "none"
             /\ gravityState.object \in Spinning =>
                   ~animationPaused'[gravityState.object]]_vars

\* C12: after the gravity button has been pressed for the sphere, the torus
\* or the cube, the frames that follow eventually clear that object's pause
\* flag, whatever clicks, presses and preset changes come in between.  On a
\* finite run: an object whose idle animation is paused is the one bound to
\* the gravity button, the only thing whose landing clears the flag, and it
\* is not in a state that the next frame repeats.
C12_IdleResumes ==
    \A o \in Spinning :
       animationPaused[o] =>
          /\ gravityState.active
          /\ gravityState.object = o
          /\ ~Steady(BoundBody(position))

\* C13: one of the presets earth (-9.8), moon (-1.62), jupiter (-24.79) is
\* current in every state; a frame integrates the bound object and every
\* active falling sphere with the acceleration of the preset that is current
\* when it runs; the change of the preset moves no body and changes no
\* velocity.
C13_OnePreset ==
    /\ currentGravityPreset \in Presets
    /\ Cardinality({p \in Presets : p = currentGravityPreset}) = 1

\* the acceleration the claim gives for a preset, cm/s^2
ClaimedAccel(preset) ==
    CASE preset = "earth" -> -980
      [] preset = "moon" -> -162
      [] preset = "jupiter" -> -2479

C13_Integrated(y, v, floorY, y2, v2, g, dt) ==
    LET v1 == v + g * dt
        y1 == y + v1 * dt
    IN  IF y1 > floorY THEN y2 = y1 /\ v2 = v1
        ELSE IF y1 < floorY THEN y2 = floorY /\ v2 = Bounce(v1)
        ELSE (y2 = y1 /\ v2 = v1) \/ (y2 = floorY /\ v2 = Bounce(v1))

C13_FrameUsesPreset ==
    [][pgHist'.lastOp = "tick" =>
          LET g  == ClaimedAccel(currentGravityPreset')
              dt == pgHist'.dt
          IN  /\ \A i \in 1..Len(dynamicBodies) :
                    dynamicBodies[i].active =>
                       C13_Integrated(dynamicBodies[i].y, dynamicBodies[i].velocityY,
                                      dynamicBodies[i].floorY, dynamicBodies'[i].y,
                                      dynamicBodies'[i].velocityY, g, dt)
              /\ (gravityState.active /\ gravityState.object # "none") =>
                    C13_Integrated(position[gravityState.object].y,
                                   gravityState.velocityY, gravityState.floorY,
                                   position'[gravityState.object].y,
                                   gravityState'.velocityY, g, dt)]_vars

C13_ChangeMovesNothing ==
    [][pgHist'.lastOp = "preset" =>
          /\ currentGravityPreset' \in Presets
          /\ UNCHANGED <<gravityState, position, dynamicBodies, projectiles>>]_vars

C13_PresetGoverns ==
    []C13_OnePreset /\ C13_FrameUsesPreset /\ C13_ChangeMovesNothing

\* frames have integrated a falling sphere and the bound object after the
\* preset was changed to the moon's
C13_Witness ==
    /\ pgHist.lastOp = "tick"
    /\ pgHist.presetChanges = 1
    /\ currentGravityPreset = "moon"
    /\ gravityState.active /\ gravityState.velocityY < 0
    /\ \E i \in 1..Len(dynamicBodies) :
          dynamicBodies[i].active /\ dynamicBodies[i].velocityY < 0

\* C14: a projectile's acceleration is set when it is launched, to the
\* acceleration of the preset current at that moment plus the extra
\* acceleration, vertically, and to zero horizontally; no frame and no later
\* change of the preset alters it.
C14_AccelFixedAtSpawn ==
    [][/\ \A i \in 1..Len(projectiles) :
             i <= Len(projectiles') =>
                /\ projectiles'[i].ay = projectiles[i].ay
                /\ projectiles'[i].vh = projectiles[i].vh
       /\ Len(projectiles') > Len(projectiles) =>
             /\ Len(projectiles') = Len(projectiles) + 1
             /\ \E extra \in ExtraAccels :
                   projectiles'[Len(projectiles')].ay =
                      ClaimedAccel(currentGravityPreset) + extra]_vars

\* frames have moved a projectile that was launched under another preset
\* than the current one
C14_Witness ==
    /\ pgHist.lastOp = "tick"
    /\ pgHist.presetChanges = 1
    /\ \E i \in 1..Len(projectiles) :
          /\ projectiles[i].active
          /\ projectiles[i].h > 0
          /\ \A extra \in ExtraAccels :
                projectiles[i].ay # ClaimedAccel(currentGravityPreset) + extra

\* C15: a change of the preset asks for the floor texture of the same
\* body: the Earth's for earth, the Moon's for moon, Jupiter's for jupiter.
C15_FloorFollowsPreset ==
    [][pgHist'.lastOp = "preset" =>
          floorRequest' =
             CASE currentGravityPreset' = "earth" -> "EarthTexture.png"
               [] currentGravityPreset' = "moon" -> "MoonTexture.jpg"
               [] currentGravityPreset' = "jupiter" -> "JupiterTexture.jpg"]_vars

\* C16: the gravity button pressed while nothing has been selected raises a
\* notice and changes nothing of the simulation: gravityState and the pause
\* flags are as before.
C16_NoSelectionNoChange ==
    [][(pgHist'.lastOp = "gravity" /\ lastClickedObject = "none") =>
          /\ pgHist'.alerts = pgHist.alerts + 1
          /\ UNCHANGED <<gravityState, animationPaused, position, dynamicBodies,
                         projectiles, currentGravityPreset, lastClickedObject>>]_vars

\* the button has been pressed with nothing selected
C16_Witness ==
    /\ pgHist.lastOp = "gravity"
    /\ pgHist.alerts = 1
    /\ lastClickedObject = "none"

\* C17: the frame time a tick integrates the bodies with never exceeds
\* 0.033 s, however long the frame before took.  pgHist.dt is the delta of
\* the playground's last animate(), sinceFrame the time the FPS script's
\* next animate() integrates with.
C17_DeltaClamped ==
    /\ pgHist.dt <= maxDelta
    /\ sinceFrame <= maxDelta

(***************************************************************************)
(* The body registries of the FPS script and of the playground             *)
(***************************************************************************)
ThreatIdsIn(seq) == {seq[i].id : i \in 1..Len(seq)}

\* a body has entered or left a registry in this step
RegistryChanged ==
    \/ ThreatIdsIn(threats') # ThreatIdsIn(threats)
    \/ Len(debris') # Len(debris)
    \/ Len(bulletsFX') # Len(bulletsFX)
    \/ Len(dynamicBodies') # Len(dynamicBodies)
    \/ Len(projectiles') # Len(projectiles)

\* the step is a run of animate(), of the FPS script or of the playground
IsTick ==
    \/ sinceFrame > 0 /\ sinceFrame' = 0
    \/ pgHist'.lastOp = "tick"

C19_FireRate ==
    [][/\ fpsHist'.shots = fpsHist.shots + 1 =>
             sinceShot >= 100 /\ sinceShot' = 0
       /\ \A target \in 0..(MaxSpawns + 1), life \in DebrisLives :
             (OnMouseDown(target, life) /\ sinceShot < 100) =>
                /\ fpsHist'.shots = fpsHist.shots
                /\ UNCHANGED <<ammo, threats, debris, bulletsFX, score, kills,
                               sinceShot>>]_vars

\* two shots have been fired and the next mouse-down comes 0.05 s after the
\* second, with a threat in the registry
C19_Witness ==
    /\ fpsHist.shots = 2
    /\ sinceShot = 50
    /\ isPointerLocked /\ ~isDead
    /\ Len(threats) >= 1

\* C20: in every state of the FPS script 0 <= hp <= maxHP, and the player
\* is dead exactly when hp = 0; the player dies in the takeDamage call that
\* takes hp to 0, where hp stops instead of going negative, and in no other
\* step.
C20_HpRange ==
    /\ 0 <= hp /\ hp <= 100
    /\ isDead <=> hp = 0

C20_DiesAtZero ==
    [][/\ (~isDead /\ isDead') =>
             /\ fpsHist'.dmgCalls = fpsHist.dmgCalls + 1
             /\ hp > 0 /\ hp' = 0
       /\ (~isDead /\ hp' < hp) =>
             /\ fpsHist'.dmgCalls = fpsHist.dmgCalls + 1
             /\ isDead' <=> hp' = 0]_vars

C20_HpAndDeath == []C20_HpRange /\ C20_DiesAtZero

\* one takeDamage call for more than the player had left has killed
C20_Witness ==
    /\ isDead /\ hp = 0
    /\ fpsHist.dmgCalls = 1
    /\ fpsHist.deadCalls = 0

\* C21: a falling sphere or projectile whose active flag has become false
\* is removed from its registry by the frames that follow, with no user
\* action.  On a finite run: a frame that began with a landed projectile in
\* the registry does not end with a landed projectile in it, and no falling
\* sphere at rest is in its registry after a frame.
C21_SweepRemoves ==
    (pgHist.lastOp = "tick" /\ pgHist.rested >= 1) =>
       /\ \A i \in 1..Len(projectiles) : projectiles[i].active
       /\ \A i \in 1..Len(dynamicBodies) : dynamicBodies[i].active

(***************************************************************************)
(* FPS: properties of updateThreats                                        *)
(***************************************************************************)
\* the step is a run of the FPS script's animate() with the player alive
LiveTick == sinceFrame > 0 /\ sinceFrame' = 0 /\ ~isDead

\* the threats of the registry that the frame moves into the player's
\* hitbox: distance to the player's centre <= threat.radius + playerRadius
Overlapping ==
    LET dt == Min(sinceFrame, 33)
    IN  {i \in 1..Len(threats) :
           LET t  == threats[i]
               z1 == t.z + Scale(t.vz, dt)
               r  == t.radius + playerRadius
           IN  /\ t.alive
               /\ Dist2(t.y, z1, camera'.y - playerCenterDrop, camera'.z) <= r * r}

\* C22: a threat that overlaps the player's hitbox in a tick deals the damage
\* of 18 once, is fragmented and leaves the registry in that tick; a threat
\* hits the player at most once, and only a threat that overlaps hits.
C22_HitsOnce ==
    \A id \in ThreatIds : fpsHist.playerHitsOf[id] <= 1

C22_HitInTick ==
    [][/\ LiveTick =>
             /\ \A i \in Overlapping :
                   LET id == threats[i].id
                   IN  /\ fpsHist'.playerHitsOf[id] = fpsHist.playerHitsOf[id] + 1
                       /\ fpsHist'.shattersOf[id] = fpsHist.shattersOf[id] + 1
                       /\ fpsHist'.stepsOf[id] = fpsHist.stepsOf[id] + 1
                       /\ id \notin ThreatIdsIn(threats')
             /\ hp' = Max(0, hp - 18 * Cardinality(Overlapping))
       /\ \A id \in ThreatIds :
             (fpsHist'.lastOp # "reset"
                /\ fpsHist'.playerHitsOf[id] # fpsHist.playerHitsOf[id]) =>
                   /\ LiveTick
                   /\ \E i \in Overlapping : threats[i].id = id]_vars

C22_ContactDamage == []C22_HitsOnce /\ C22_HitInTick

\* a threat has hit the player, who had less than 18 left, and is gone
C22_Witness ==
    /\ isDead /\ hp = 0
    /\ \E id \in ThreatIds :
          /\ fpsHist.playerHitsOf[id] = 1
          /\ fpsHist.shattersOf[id] = 1
          /\ ~InRegistry(id)

\* C23: threats are spawned only in ticks with the pointer locked and the
\* player alive, at most one per tick, and two spawns with no resetGame()
\* between them are at least 0.4 s of simulated time apart.  The time is
\* counted by threatSpawnTimer: a spawn sets it to 0.4 s or more, only
\* frames count it down, by their dt, and a spawn needs it at 0 or below.
C23_SpawnPacing ==
    [][fpsHist'.lastOp # "reset" =>
          LET dt == Min(sinceFrame, 33)
              spawned == ThreatIdsIn(threats') \ ThreatIdsIn(threats)
          IN  /\ Cardinality(spawned) <= 1
              /\ fpsHist'.nextId = fpsHist.nextId + Cardinality(spawned)
              /\ spawned # {} =>
                    /\ LiveTick /\ isPointerLocked
                    /\ threatSpawnTimer - dt <= 0
                    /\ threatSpawnTimer' >= 400
              /\ spawned = {} =>
                    \/ threatSpawnTimer' = threatSpawnTimer
                    \/ LiveTick /\ threatSpawnTimer' >= threatSpawnTimer - dt]_vars

\* two threats have been spawned since the page was loaded, thirteen and
\* more frames apart
C23_Witness ==
    /\ hp = maxHP
    /\ fpsHist.nextId = 3
    /\ fpsHist.ticks >= 13
    /\ Len(threats) = 2

\* C24: in one updateThreats pass every threat that is in the registry when
\* the pass begins is advanced and checked exactly once, whichever threats
\* the pass removes; no other step advances a threat.
C24_EachThreatOnce ==
    [][fpsHist'.lastOp # "reset" =>
          \A id \in ThreatIds :
             fpsHist'.stepsOf[id] - fpsHist.stepsOf[id] =
                IF LiveTick /\ (id \in ThreatIdsIn(threats) \/ id \in ThreatIdsIn(threats'))
                THEN 1 ELSE 0]_vars

\* a pass has removed a threat and has advanced another one as well
C24_Witness ==
    \E id1, id2 \in ThreatIds :
       /\ id1 < id2
       /\ ~InRegistry(id1) /\ fpsHist.playerHitsOf[id1] = 1
       /\ fpsHist.stepsOf[id2] = fpsHist.stepsOf[id1]
       /\ fpsHist.stepsOf[id1] >= 1

\* C27: the vertical velocity is set to the jump velocity only by a Space
\* key-down that comes while onGround is true; onGround is true only with
\* the camera at eyeHeight, so that a second jump needs the camera back on
\* the floor; the camera is never below eyeHeight.
C27_Grounded ==
    /\ onGround => camera.y = 170
    /\ camera.y >= 170

C27_JumpFromGround ==
    [][(playerVelY' = 650 /\ playerVelY # 650) =>
          /\ onGround /\ camera.y = 170
          /\ keys'.space
          /\ playerVelY' = 650 /\ ~onGround'
          /\ camera' = camera /\ sinceFrame' = sinceFrame]_vars

C27_NoDoubleJump == []C27_Grounded /\ C27_JumpFromGround

\* a jump is on its way down
C27_Witness ==
    /\ ~onGround /\ camera.y > 170
    /\ playerVelY < 0
    /\ fpsHist.inputs >= 3 /\ keys.space

(***************************************************************************)
(* Wave lab: handlers                                                      *)
(***************************************************************************)
\* an animate() that leaves the step request standing
WvAnimateMutKeepStep(dt) ==
    /\ WvOnly
    /\ wvHist.frames < MaxWaveFrames
    /\ LET run == ~isPaused \/ stepOnce
           nx  == StepImpulse(dt)
       IN  /\ impulseVel' = IF run THEN nx.vel ELSE impulseVel
           /\ impulsePos' = IF run THEN nx.pos ELSE impulsePos
           /\ stepOnce' = stepOnce
           /\ wvHist' = [wvHist EXCEPT
                           !.frames = @ + 1,
                           !.updates = IF run THEN @ + 1 ELSE @,
                           !.pending = 0,
                           !.sinceRead = 0,
                           !.frame = Min(wvHist.sinceRead, 33),
                           !.dt = IF run THEN dt ELSE -1,
                           !.clamped = @ \/ (run /\ RawPos(dt) # nx.pos)]
    /\ UNCHANGED <<isPaused, params>>

\* animate(): src/waves.js 762-775, with updateWave() 606-631.  dt is the
\* frame time that reaches stepImpulse.
WvAnimate(dt) ==
    /\ WvOnly
    /\ wvHist.frames < MaxWaveFrames
    /\ LET run == ~isPaused \/ stepOnce
           nx  == StepImpulse(dt)
       IN  /\ impulseVel' = IF run THEN nx.vel ELSE impulseVel
           /\ impulsePos' = IF run THEN nx.pos ELSE impulsePos
           /\ stepOnce' = IF run THEN FALSE ELSE stepOnce
           /\ wvHist' = [wvHist EXCEPT
                           !.frames = @ + 1,
                           !.updates = IF run THEN @ + 1 ELSE @,
                           !.pending = 0,
                           !.sinceRead = 0,
                           !.frame = Min(wvHist.sinceRead, 33),
                           !.dt = IF run THEN dt ELSE -1,
                           !.clamped = @ \/ (run /\ RawPos(dt) # nx.pos)]
    /\ UNCHANGED <<isPaused, params>>

\* time passes between two frames: d ms on THREE.Clock
WvClock(d) ==
    /\ WvOnly
    /\ wvHist.sinceRead < readCap
    /\ wvHist' = [wvHist EXCEPT !.sinceRead = Min(@ + d, readCap)]
    /\ UNCHANGED <<isPaused, stepOnce, params, impulseVel, impulsePos>>

\* the Step button and key O: src/waves.js 145 and 370
RequestStep ==
    /\ WvOnly
    /\ wvHist.steps < MaxSteps
    /\ stepOnce' = TRUE
    /\ isPaused' = TRUE
    /\ wvHist' = [wvHist EXCEPT !.steps = @ + 1, !.pending = @ + 1]
    /\ UNCHANGED <<params, impulseVel, impulsePos>>

\* togglePause(), the Pause / Resume button and key P: src/waves.js 529-532
TogglePause ==
    /\ WvOnly
    /\ wvHist.toggles < MaxToggles
    /\ isPaused' = ~isPaused
    /\ wvHist' = [wvHist EXCEPT !.toggles = @ + 1]
    /\ UNCHANGED <<stepOnce, params, impulseVel, impulsePos>>

\* resetSim(), the Reset button and key R: src/waves.js 552-555
ResetSim ==
    /\ WvOnly
    /\ PanelInUse
    /\ impulseVel' = Still
    /\ impulsePos' = Still
    /\ wvHist' = [wvHist EXCEPT !.panel = @ + 1]
    /\ UNCHANGED <<isPaused, stepOnce, params>>

\* rebuildWave() from the point size slider: src/waves.js 557-561 with the
\* new buffers of buildWave() 188-189
RebuildWave ==
    /\ WvOnly
    /\ PanelInUse
    /\ impulseVel' = Still
    /\ impulsePos' = Still
    /\ wvHist' = [wvHist EXCEPT !.panel = @ + 1]
    /\ UNCHANGED <<isPaused, stepOnce, params>>

\* applyPreset(name): src/waves.js 789-845
ApplyPreset(name) ==
    /\ WvOnly
    /\ PanelInUse
    /\ params' =
         IF name = "sine"
         THEN [damping |-> 12, clickImpulseEnabled |-> TRUE,
               impulseStrength |-> 1000, impulseRadius |-> 6,
               impulseFalloff |-> 1000]
         ELSE IF name = "beats" THEN [params EXCEPT !.damping = 10]
         ELSE IF name = "standing" THEN [params EXCEPT !.damping = 14]
         ELSE [damping |-> 20, clickImpulseEnabled |-> TRUE,
               impulseStrength |-> 700, impulseRadius |-> 8,
               impulseFalloff |-> 1400]
    /\ impulseVel' = Still
    /\ impulsePos' = Still
    /\ wvHist' = [wvHist EXCEPT !.panel = @ + 1]
    /\ UNCHANGED <<isPaused, stepOnce>>

\* the input handler of bindSlider(key): src/waves.js 493-497
SetSlider(kv) ==
    /\ WvOnly
    /\ PanelInUse
    /\ params' = [params EXCEPT ![kv[1]] = kv[2]]
    /\ wvHist' = [wvHist EXCEPT !.panel = @ + 1]
    /\ UNCHANGED <<isPaused, stepOnce, impulseVel, impulsePos>>

\* the change handler of bindToggle("clickImpulseEnabled"): 504-507
ToggleClickImpulse ==
    /\ WvOnly
    /\ PanelInUse
    /\ params' = [params EXCEPT !.clickImpulseEnabled = ~@]
    /\ wvHist' = [wvHist EXCEPT !.panel = @ + 1]
    /\ UNCHANGED <<isPaused, stepOnce, impulseVel, impulsePos>>

\* onClickImpulse(e) with the ray hitting point idx: src/waves.js 678-696
OnClickImpulse(idx) ==
    /\ WvOnly
    /\ wvHist.clicks < MaxWaveClicks /\ WaveInputOpen
    /\ impulseVel' = IF params.clickImpulseEnabled
                     THEN AddImpulseAtIndex(idx) ELSE impulseVel
    /\ wvHist' = [wvHist EXCEPT !.clicks = @ + 1]
    /\ UNCHANGED <<isPaused, stepOnce, params, impulsePos>>

(***************************************************************************)
(* Wave lab: the impulse field of the running simulation                   *)
(***************************************************************************)
FieldNext ==
    \/ \E dt \in FieldDeltas : WvAnimate(dt)
    \/ ResetSim
    \/ RebuildWave
    \/ \E name \in PresetNames : ApplyPreset(name)
    \/ \E kv \in SliderDraws : SetSlider(kv)
    \/ ToggleClickImpulse
    \/ \E idx \in Indices : OnClickImpulse(idx)

SpecField == WvPage /\ [][FieldNext]_vars

(***************************************************************************)
(* Wave lab: the controls that only change the look of the scene           *)
(***************************************************************************)
\* colour mode, solid colour, colour intensity and the five show toggles
VisualControls == {"colorMode", "solidColor", "colorIntensity", "showGrid",
                   "showAxes", "showFloor", "showLine", "showPoints"}

\* the handlers of buildUI() for these controls: src/waves.js 394,
\* 401-405 (applyAllToggles 563-567), 409-421; none touches the buffers
SetVisual(ctl) ==
    /\ WvOnly
    /\ PanelInUse
    /\ ctl \in VisualControls
    /\ wvHist' = [wvHist EXCEPT !.panel = @ + 1]
    /\ UNCHANGED <<isPaused, stepOnce, params, impulseVel, impulsePos>>

VisualNext ==
    \/ \E dt \in FieldDeltas : WvAnimate(dt)
    \/ RebuildWave
    \/ \E ctl \in VisualControls : SetVisual(ctl)
    \/ \E idx \in Indices : OnClickImpulse(idx)

SpecVisual == WvPage /\ [][VisualNext]_vars

(***************************************************************************)
(* Wave lab: pause, resume and step                                        *)
(***************************************************************************)
StepNext ==
    \/ \E dt \in WaveDeltas : WvAnimate(dt)
    \/ RequestStep
    \/ TogglePause
    \/ \E idx \in {0} : OnClickImpulse(idx)

SpecStep == WvPage /\ [][StepNext]_vars

(***************************************************************************)
(* Wave lab: the clock reads of a frame                                    *)
(***************************************************************************)
ClockNext ==
    \/ \E d \in FrameTimes : WvClock(d)
    \/ \E dt \in WaveDeltas : WvAnimate(dt)
    \/ TogglePause
    \/ \E idx \in Indices : OnClickImpulse(idx)

SpecClock == WvPage /\ [][ClockNext]_vars

(***************************************************************************)
(* Wave lab: properties                                                    *)
(***************************************************************************)
\* C7: every impulsePos[i] is between -3.0 and 3.0, whatever frames,
\* clicks, settings, presets, resets and rebuilds have happened.
C7_PosWithinLimits ==
    \A i \in Indices : -3000 <= impulsePos[i] /\ impulsePos[i] <= 3000

\* a displacement has been cut back to the limit
C7_Witness ==
    /\ wvHist.clamped
    /\ \E i \in Indices : impulsePos[i] = 3000

\* C10: the frame after one or several Step requests calls updateWave()
\* exactly once; a Step request leaves the simulation paused, a frame does
\* not change that, and a frame of the paused simulation with no request
\* pending calls updateWave() not at all.  Nothing else calls it.
C10_StepTicksOnce ==
    [][/\ wvHist'.steps # wvHist.steps => isPaused'
       /\ wvHist'.frames # wvHist.frames =>
             /\ isPaused' = isPaused
             /\ wvHist.pending > 0 => wvHist'.updates = wvHist.updates + 1
             /\ (wvHist.pending = 0 /\ isPaused) =>
                   wvHist'.updates = wvHist.updates
       /\ wvHist'.frames = wvHist.frames =>
             wvHist'.updates = wvHist.updates]_vars

\* two Step requests, then a frame that ticked and a frame that did not
C10_Witness ==
    /\ wvHist.steps = 2 /\ wvHist.toggles = 0
    /\ wvHist.frames = 2 /\ wvHist.updates = 1
    /\ wvHist.pending = 0
    /\ isPaused /\ ~stepOnce

\* C25: the dt that updateWave() gives stepImpulse in a frame is the time
\* since the frame before, capped at 0.033 s.
C25_StepGetsFrameTime ==
    wvHist.dt # -1 => wvHist.dt = wvHist.frame

\* C26: addImpulseAtIndex(c) changes impulseVel only at the indices i of the
\* line with |i - c| <= radius, radius = max(1, floor(impulseRadius)); what
\* falls outside the line is skipped and does not come back at the other
\* end, every other impulseVel and every impulsePos is as before.
C26_ImpulseIsLocal ==
    [][\A c \in Indices :
          OnClickImpulse(c) =>
             LET radius == Max(1, params.impulseRadius)
             IN  /\ impulsePos' = impulsePos
                 /\ DOMAIN impulseVel' = 0..(PointCount - 1)
                 /\ \A i \in 0..(PointCount - 1) :
                       (i < c - radius \/ i > c + radius) =>
                          impulseVel'[i] = impulseVel[i]]_vars

\* a click on the first point with radius 1: the point is pushed, the last
\* point of the line is not
C26_Witness ==
    /\ params.impulseRadius = 1
    /\ wvHist.clicks = 1 /\ wvHist.frames = 0
    /\ impulseVel[0] > 0
    /\ impulseVel[PointCount - 1] = 0

\* C28: a step of a visual-only control (colour mode, solid colour, point
\* size, colour intensity, the grid, axes, floor, line and points toggles)
\* leaves every impulsePos[i] and impulseVel[i] as it was.
C28_VisualKeepsImpulse ==
    [][(RebuildWave \/ \E ctl \in VisualControls : SetVisual(ctl)) =>
          /\ impulseVel' = impulseVel
          /\ impulsePos' = impulsePos]_vars

\* C30: score = 100 * kills in every state; score and kills change only
\* together, in a kill by the weapon (kills + 1, score + 100, the threat
\* shattered and removed by that shot) or in resetGame (both 0); a threat
\* destroyed by its collision with the player changes neither.
C30_ScoreIsKills == score = 100 * kills

C30_ChangeTogether ==
    [][(score' # score \/ kills' # kills) =>
          \/ /\ kills' = kills + 1 /\ score' = score + 100
             /\ fpsHist'.shots = fpsHist.shots + 1
             /\ \E i \in 1..Len(threats) :
                   /\ fpsHist'.killsOf[threats[i].id] = 1
                   /\ fpsHist.killsOf[threats[i].id] = 0
                   /\ threats[i].id \notin ThreatIdsIn(threats')
          \/ /\ fpsHist'.lastOp = "reset"
             /\ score' = 0 /\ kills' = 0]_vars

C30_CollisionKeepsScore ==
    [][(\E id \in DOMAIN fpsHist.playerHitsOf :
           fpsHist'.playerHitsOf[id] > fpsHist.playerHitsOf[id]) =>
          score' = score /\ kills' = kills]_vars

C30_ScoreAndKills ==
    []C30_ScoreIsKills /\ C30_ChangeTogether /\ C30_CollisionKeepsScore

\* one threat was shot down, another one has hit the player
C30_Witness ==
    /\ kills = 1 /\ score = 100
    /\ \E id \in DOMAIN fpsHist.playerHitsOf : fpsHist.playerHitsOf[id] = 1

\* a threat that no further tick removes while the player stands where they
\* are: it has stopped (drag has brought its velocity to 0), it is in front
\* of the player, within the 140-unit range and outside the hitbox
ThreatAtRest(t) ==
    /\ t.alive /\ t.vz = 0
    /\ (t.z - camera.z) * Fwd(camera.yaw) >= 0
    /\ Dist2(t.y, t.z, camera.y, camera.z) <= farCutoff * farCutoff
    /\ Dist2(t.y, t.z, camera.y - playerCenterDrop, camera.z) >
          (t.radius + playerRadius) * (t.radius + playerRadius)

Standing == onGround /\ ~keys.w /\ ~keys.s

\* a tick leaves a threat at rest where it is
RestIsForLife ==
    [][\A i \in 1..Len(threats) :
          (LiveTick /\ Standing /\ ThreatAtRest(threats[i])) =>
             /\ i <= Len(threats') /\ threats'[i] = threats[i]
             /\ camera' = camera /\ Standing']_vars

\* C29: while the player is alive and the ticks go on, every threat of the
\* registry is removed after some ticks (out of range, hit, behind, or shot).
\* Stated for finite runs: no threat of the registry of a living, standing
\* player is ever at rest, since ticks never remove a threat at rest.
C29_ThreatsGetRemoved ==
    (~isDead /\ Standing) =>
        \A i \in 1..Len(threats) : ~ThreatAtRest(threats[i])

=============================================================================
